---- MODULE Spec2Model ----
(***************************************************************************)
(* Model of the metadata pipeline of hexo-editor-desktop (src/main.py):    *)
(* the scan worker (FileLoader), the export worker (ExportThread), the     *)
(* category store (CategoryManager) and the tag store (TagManager).        *)
(*                                                                         *)
(* Strings are sequences of one-character strings, so that split('/', 1)   *)
(* and the "Main/Sub" concatenation are computed as the code computes      *)
(* them.  A Python dict is a function; its insertion order is not          *)
(* modelled, so a list built by iterating a dict is modelled by the set    *)
(* of its elements.                                                        *)
(***************************************************************************)
EXTENDS Integers, Sequences, FiniteSets, TLC

VARIABLES
    articles,       \* HexoEditor.articles
    hasCatMgr,      \* hasattr(self, 'category_manager')
    categories,     \* CategoryManager.categories
    tree,           \* CategoryManager.tree: the items built by the last updateTree
    config,         \* category_config.json
    published,      \* payload of the last categories_updated emission
    hasTagMgr,      \* hasattr(self, 'tag_manager')
    tags,           \* TagManager.tags
    tagTree,        \* TagManager.tree: the items built by the last updateTree
    tagConfig,      \* tag_config.json
    tagsPublished,  \* payload of the last tags_updated emission
    saveFailures,   \* number of failed saveConfig calls so far
    ops,            \* number of operations performed so far
    lastOp,         \* the last operation and the items it acted on (history)
    article_list,   \* HexoEditor.article_list: the texts of the rows displayed
    filtered_indices, \* HexoEditor.filtered_indices, and whether it is set
    current_file,   \* HexoEditor.current_file: 0 for None, k for the path of
                    \* articles[k], -1 for a path that no listed article has
    selector,       \* the CategorySelector dialog of select_categories
    document,       \* the editor form, the file save_article writes, and what
                    \* load_article reads back from it
    loader,         \* HexoEditor.loader: the invocation of FileLoader.run
    earlier,        \* the FileLoader that select_directory replaced while it
                    \* was running, if its thread runs on
    exporter        \* HexoEditor.exporter: the invocation of ExportThread.run

catVars == <<hasCatMgr, categories, tree, config, published>>

tagVars == <<hasTagMgr, tags, tagTree, tagConfig, tagsPublished>>

listVars == <<article_list, filtered_indices, current_file>>

editorVars ==
    <<articles, listVars, catVars, tagVars, saveFailures, ops, lastOp, selector,
      document>>

workerVars == <<loader, earlier, exporter>>

vars == <<editorVars, workerVars>>

----------------------------------------------------------------------------
(* Bounds *)

MaxArticles == 2
MaxSaveFailures == 1
MaxSelected == 3
MaxOps == 4
MaxFiles == 2
MaxText == 3

----------------------------------------------------------------------------
(* Strings *)

Slash == "/"

sA == <<"A">>
sB == <<"B">>
sC == <<"C">>
sx == <<"x">>
sy == <<"y">>
st == <<"t">>
su == <<"u">>
sv == <<"v">>

Path(m, s) == m \o <<Slash>> \o s

\* '/' in cat
HasSlash(cat) == \E i \in 1..Len(cat) : cat[i] = Slash

FirstSlash(cat) ==
    CHOOSE i \in 1..Len(cat) :
        cat[i] = Slash /\ \A j \in 1..(i - 1) : cat[j] # Slash

\* cat.split('/', 1)
SplitMain(cat) == SubSeq(cat, 1, FirstSlash(cat) - 1)
SplitSub(cat) == SubSeq(cat, FirstSlash(cat) + 1, Len(cat))

----------------------------------------------------------------------------
(* Python dict operations *)

EmptyDict == <<>>

DictSet(d, k, v) == [x \in (DOMAIN d) \cup {k} |-> IF x = k THEN v ELSE d[x]]

DictPop(d, k) == [x \in (DOMAIN d) \ {k} |-> d[x]]

\* d.get(k, 0)
Get0(d, k) == IF k \in DOMAIN d THEN d[k] ELSE 0

NewNode == [count |-> 0, subcategories |-> EmptyDict]

Subs(cats, m) == cats[m].subcategories

SetCount(cats, m, c) == DictSet(cats, m, [cats[m] EXCEPT !.count = c])

SetSub(cats, m, s, c) ==
    DictSet(cats, m, [cats[m] EXCEPT !.subcategories = DictSet(Subs(cats, m), s, c)])

PopSub(cats, m, s) ==
    DictSet(cats, m, [cats[m] EXCEPT !.subcategories = DictPop(Subs(cats, m), s)])

\* sub_name in dict: += sub_count, else: = sub_count
AddSub(cats, m, s, c) ==
    IF s \in DOMAIN Subs(cats, m)
    THEN SetSub(cats, m, s, Subs(cats, m)[s] + c)
    ELSE SetSub(cats, m, s, c)

----------------------------------------------------------------------------
(* Articles *)

\* ord(c), for the characters of the dates used
Ord(c) ==
    CASE c = "0" -> 48 [] c = "1" -> 49 [] c = "2" -> 50 [] c = "3" -> 51
      [] c = "4" -> 52 [] c = "5" -> 53 [] c = "6" -> 54 [] c = "7" -> 55
      [] c = "8" -> 56 [] c = "9" -> 57

RECURSIVE StrLess(_, _)
\* a < b on Python strings: character by character, a proper prefix is smaller
StrLess(a, b) ==
    IF b = <<>> THEN FALSE
    ELSE IF a = <<>> THEN TRUE
    ELSE IF Head(a) # Head(b) THEN Ord(Head(a)) < Ord(Head(b))
    ELSE StrLess(Tail(a), Tail(b))

\* A scalar of a front matter as yaml.safe_load returns it:  title: 7  is an
\* integer,  title: "7"  is a string
IntValue(n) == [isInt |-> TRUE, n |-> n, text |-> <<>>]
StrValue(text) == [isInt |-> FALSE, n |-> 0, text |-> text]

DigitChars == <<"0", "1", "2", "3", "4", "5", "6", "7", "8", "9">>

RECURSIVE Digits(_)
Digits(n) ==
    IF n < 10 THEN <<DigitChars[n + 1]>>
    ELSE Digits(n \div 10) \o <<DigitChars[(n % 10) + 1]>>

\* str(value)
Str(value) == IF value.isInt THEN Digits(value.n) ELSE value.text

\* An article as FileLoader.run builds it. catsIsList and tagsIsList are
\* isinstance(article['categories'], list) and isinstance(article['tags'], list):
\* the YAML front matter may hold a scalar where a sequence is expected.
Article(title, date, cats, catsIsList, tagList, tagsIsList) ==
    [title |-> title, date |-> date,
     categories |-> cats, catsIsList |-> catsIsList,
     tags |-> tagList, tagsIsList |-> tagsIsList]

ArticleKinds ==
    { Article(StrValue(<<"a">>), <<"9">>, <<sA, Path(sA, sx), sC>>, TRUE, <<st, su>>, TRUE),
      Article(StrValue(<<"b">>), <<"1", "0">>, <<Path(sB, sx), Path(sB, sy)>>, TRUE,
              <<st, sv>>, TRUE),
      Article(StrValue(<<"c">>), <<"1">>, <<sA>>, FALSE, <<su>>, FALSE) }

RECURSIVE SeqsUpTo(_, _)
SeqsUpTo(S, n) ==
    IF n = 0 THEN {<<>>}
    ELSE LET shorter == SeqsUpTo(S, n - 1)
         IN shorter \cup {Append(q, e) : q \in {r \in shorter : Len(r) = n - 1}, e \in S}

\* The order FileLoader.run leaves the list in: str(date), descending
SortedByDate(arts) ==
    \A i \in 1..(Len(arts) - 1) : ~StrLess(arts[i].date, arts[i + 1].date)

\* The article lists a scan delivers: at most MaxArticles articles, sorted
Corpora == {arts \in SeqsUpTo(ArticleKinds, MaxArticles) : SortedByDate(arts)}

----------------------------------------------------------------------------
(* CategoryManager.scan_articles *)

\* Mutant: the inner loop over the subcategories is missing
ResetCountsMainOnly(cats) ==
    [m \in DOMAIN cats |-> [cats[m] EXCEPT !.count = 0]]

ResetCounts(cats) ==
    [m \in DOMAIN cats |->
        [count |-> 0,
         subcategories |-> [s \in DOMAIN Subs(cats, m) |-> 0]]]

\* Mutant: a "Main/Sub" assignment increments the subcategory only
TallyCategorySubOnly(cats, cat) ==
    IF HasSlash(cat)
    THEN LET main_cat == SplitMain(cat)
             sub_cat == SplitSub(cat)
             c1 == IF main_cat \notin DOMAIN cats
                   THEN DictSet(cats, main_cat, NewNode) ELSE cats
         IN SetSub(c1, main_cat, sub_cat, Get0(Subs(c1, main_cat), sub_cat) + 1)
    ELSE LET c1 == IF cat \notin DOMAIN cats
                   THEN DictSet(cats, cat, NewNode) ELSE cats
         IN SetCount(c1, cat, c1[cat].count + 1)

TallyCategory(cats, cat) ==
    IF HasSlash(cat)
    THEN LET main_cat == SplitMain(cat)
             sub_cat == SplitSub(cat)
             c1 == IF main_cat \notin DOMAIN cats
                   THEN DictSet(cats, main_cat, NewNode) ELSE cats
             c2 == IF sub_cat \notin DOMAIN Subs(c1, main_cat)
                   THEN SetSub(c1, main_cat, sub_cat, 0) ELSE c1
             c3 == SetCount(c2, main_cat, c2[main_cat].count + 1)
         IN SetSub(c3, main_cat, sub_cat, Subs(c3, main_cat)[sub_cat] + 1)
    ELSE LET c1 == IF cat \notin DOMAIN cats
                   THEN DictSet(cats, cat, NewNode) ELSE cats
         IN SetCount(c1, cat, c1[cat].count + 1)

RECURSIVE TallyCategories(_, _)
TallyCategories(cats, list) ==
    IF list = <<>> THEN cats
    ELSE TallyCategories(TallyCategory(cats, Head(list)), Tail(list))

RECURSIVE TallyArticles(_, _)
TallyArticles(cats, arts) ==
    IF arts = <<>> THEN cats
    ELSE LET article == Head(arts)
             c1 == IF article.catsIsList
                   THEN TallyCategories(cats, article.categories) ELSE cats
         IN TallyArticles(c1, Tail(arts))

\* Mutant: the dict is emptied before the tally, as the tag scan does
ScanResultDropsKeys(cats, arts) == TallyArticles(EmptyDict, arts)

ScanResult(cats, arts) == TallyArticles(ResetCounts(cats), arts)

\* all_categories, as the set of its elements
Flatten(cats) ==
    (DOMAIN cats) \cup
    UNION { {Path(m, s) : s \in DOMAIN Subs(cats, m)} : m \in DOMAIN cats }

----------------------------------------------------------------------------
(* Tree items: <<name>> is a top-level item, <<parent, name>> a child item *)

Items(t) ==
    {<<m>> : m \in DOMAIN t} \cup
    UNION { {<<m, s>> : s \in DOMAIN Subs(t, m)} : m \in DOMAIN t }

\* item.parent() is not None
HasParent(item) == Len(item) = 2

\* item.text(0)
ItemName(item) == item[Len(item)]

\* item.parent().text(0)
ParentName(item) == item[1]

RECURSIVE SetToSeq(_)
SetToSeq(S) ==
    IF S = {} THEN <<>>
    ELSE LET e == CHOOSE x \in S : TRUE IN <<e>> \o SetToSeq(S \ {e})

\* tree.selectedItems(). Two selected items are listed in either order. A
\* selection of another size is only measured (len(items) != 2), so one
\* selection of each size up to MaxSelected stands for all of that size.
Selections(t) ==
    LET all == SetToSeq(Items(t))
        sizes == {n \in 0..MaxSelected : n # 2 /\ n <= Len(all)}
    IN {SubSeq(all, 1, n) : n \in sizes}
         \cup {pair \in Items(t) \X Items(t) : pair[1] # pair[2]}

\* The names typed into the rename dialog, by the level of the item renamed
MainNames == {sA, sB, sC}
SubNames == {sx, sy}

NewNames(item) == IF HasParent(item) THEN SubNames ELSE MainNames

----------------------------------------------------------------------------
(* Persistence *)

NoConfig == [exists |-> FALSE, valid |-> TRUE, data |-> EmptyDict]

\* A file that open(..., 'w') has truncated and that was not written to the
\* end: json.load raises on it
Damaged == [exists |-> TRUE, valid |-> FALSE, data |-> EmptyDict]

\* Mutant: the file is created when it is missing and never rewritten
SavedConfigOnce(file, data, saveOk) ==
    IF saveOk /\ ~file.exists
    THEN {[exists |-> TRUE, valid |-> TRUE, data |-> data]}
    ELSE {file}

\* The files saveConfig can leave: the dict written; or, when the try fails,
\* the old file when open() raised, a damaged one when open() had truncated
\* the file and json.dump or the closing flush raised
SavedConfig(file, data, saveOk) ==
    IF saveOk THEN {[exists |-> TRUE, valid |-> TRUE, data |-> data]}
    ELSE {file, Damaged}

\* CategoryManager.saveConfig
SaveConfig(cats, saveOk) ==
    /\ saveOk \/ saveFailures < MaxSaveFailures
    /\ config' \in SavedConfig(config, cats, saveOk)
    /\ saveFailures' = IF saveOk THEN saveFailures ELSE saveFailures + 1

\* loadConfig, run by CategoryManager.__init__ and TagManager.__init__; when
\* json.load raises, a warning is shown and the dict stays empty
LoadConfig(file) == IF file.exists /\ file.valid THEN file.data ELSE EmptyDict

\* The state an operation starts from, and the operation before it
Pre ==
    [op |-> lastOp.op, items |-> lastOp.items,
     articles |-> articles,
     categories |-> categories, config |-> config, published |-> published,
     tags |-> tags, tagConfig |-> tagConfig, tagsPublished |-> tagsPublished,
     saveFailures |-> saveFailures, hasCatMgr |-> hasCatMgr]

\* History: the operation, the items it acted on, the size of the selection
\* and the state it started from
Op(name, items, selected) ==
    [op |-> name, items |-> items, selected |-> selected, pre |-> Pre]

\* One operation of the window or of a manager dialog; no worker is involved
Step ==
    /\ ops < MaxOps
    /\ ops' = ops + 1
    /\ UNCHANGED <<workerVars, selector, document>>

----------------------------------------------------------------------------
(* HexoEditor *)

\* str.lower() on the letters used here
LowerChar(c) ==
    CASE c = "A" -> "a"
      [] c = "B" -> "b"
      [] c = "C" -> "c"
      [] c = "X" -> "x"
      [] c = "Y" -> "y"
      [] c = "M" -> "m"
      [] c = "D" -> "d"
      [] c = "P" -> "p"
      [] c = "N" -> "n"
      [] c = "G" -> "g"
      [] OTHER -> c

Lower(text) == [k \in 1..Len(text) |-> LowerChar(text[k])]

\* needle in hay, on Python strings
Contains(needle, hay) ==
    \E k \in 0..(Len(hay) - Len(needle)) : SubSeq(hay, k + 1, k + Len(needle)) = needle

\* f"{article['title']} ({article['date']})"
DisplayText(article) == Str(article.title) \o <<" ", "(">> \o article.date \o <<")">>

NoFilter == [set |-> FALSE, indices |-> <<>>]

\* self.current_file: None, and the path of a file that is not in the list
NoFile == 0
Unlisted == -1

\* update_article_list(articles): the completion event of a scan is delivered.
\* current_file is left alone; the file it names can stand anywhere in the new
\* list or be missing from it.
UpdateArticleList(arts) ==
    /\ Step
    /\ articles' = arts
    /\ article_list' = [k \in 1..Len(arts) |-> DisplayText(arts[k])]
    /\ filtered_indices' = NoFilter
    /\ current_file' \in IF current_file = NoFile THEN {NoFile}
                         ELSE {Unlisted} \cup (1..Len(arts))
    /\ lastOp' = Op("update_article_list", <<>>, 0)
    /\ UNCHANGED <<catVars, tagVars, saveFailures>>

RECURSIVE FilterLoopRowIndex(_, _, _, _, _)
\* Mutant: the index appended is the row of the filtered list, not the
\* position in the corpus
FilterLoopRowIndex(arts, text, i, rows, indices) ==
    IF i = Len(arts) THEN [raised |-> FALSE, rows |-> rows, indices |-> indices]
    ELSE LET article == arts[i + 1]
         IN IF article.title.isInt
            THEN [raised |-> TRUE, rows |-> rows, indices |-> indices]
            ELSE IF Contains(Lower(text), Lower(article.title.text))
                 THEN FilterLoopRowIndex(arts, text, i + 1,
                                         Append(rows, DisplayText(article)),
                                         Append(indices, Len(rows)))
                 ELSE FilterLoopRowIndex(arts, text, i + 1, rows, indices)

RECURSIVE FilterLoop(_, _, _, _, _)
\* The loop of filter_articles from position i on; article['title'].lower()
\* raises AttributeError on a title that is not a string, which leaves the
\* rows and indices collected so far
FilterLoop(arts, text, i, rows, indices) ==
    IF i = Len(arts) THEN [raised |-> FALSE, rows |-> rows, indices |-> indices]
    ELSE LET article == arts[i + 1]
         IN IF article.title.isInt
            THEN [raised |-> TRUE, rows |-> rows, indices |-> indices]
            ELSE IF Contains(Lower(text), Lower(article.title.text))
                 THEN FilterLoop(arts, text, i + 1,
                                 Append(rows, DisplayText(article)), Append(indices, i))
                 ELSE FilterLoop(arts, text, i + 1, rows, indices)

\* filter_articles(text): the search box changed
FilterArticles(text) ==
    /\ Step
    /\ LET out == FilterLoop(articles, text, 0, <<>>, <<>>)
       IN /\ article_list' = out.rows
          /\ filtered_indices' = [set |-> TRUE, indices |-> out.indices]
          /\ current_file' = current_file
          /\ lastOp' = Op(IF out.raised THEN "filter_raised" ELSE "filter_articles",
                          <<text>>, 0)
    /\ UNCHANGED <<articles, catVars, tagVars, saveFailures>>

\* load_article: the index of the article of the row clicked, -1 when the
\* handler returns without one
ArticleIndex(current_row) ==
    IF filtered_indices.set
    THEN IF current_row < Len(filtered_indices.indices)
         THEN filtered_indices.indices[current_row + 1]
         ELSE -1
    ELSE current_row

\* load_article(item): a row of the list is clicked.  current_file is set
\* before the file is read, so it is set whether or not the read succeeds.
LoadArticle(current_row) ==
    /\ Step
    /\ current_row \in 0..(Len(article_list) - 1)
    /\ LET article_index == ArticleIndex(current_row)
       IN current_file' = IF article_index \in 0..(Len(articles) - 1)
                          THEN article_index + 1
                          ELSE current_file
    /\ lastOp' = Op("load_article", <<current_row>>, 0)
    /\ UNCHANGED <<articles, article_list, filtered_indices, catVars, tagVars,
                   saveFailures>>

\* new_article
NewArticle ==
    /\ Step
    /\ current_file' = NoFile
    /\ lastOp' = Op("new_article", <<>>, 0)
    /\ UNCHANGED <<articles, article_list, filtered_indices, catVars, tagVars,
                   saveFailures>>

\* The article save_article stores for a form with a title and a date and
\* with empty category and tag fields
SavedArticle(title, date) == Article(StrValue(title), date, <<>>, TRUE, <<>>, TRUE)

\* save_article, from the open() of line 629 on: file is the path written,
\* written tells whether the write succeeded.  The article with that path is
\* updated and the text of row i is set, or the article is appended with a
\* new row; item(i) is None when the list has no row i, and setText on it
\* raises after the article was updated.
SaveTo(file, title, date, written) ==
    IF ~written
    THEN /\ current_file' = file
         /\ lastOp' = Op("save_raised", <<>>, 0)
         /\ UNCHANGED <<articles, article_list, filtered_indices>>
    ELSE IF file \in 1..Len(articles)
    THEN /\ current_file' = file
         /\ articles' = [articles EXCEPT ![file] = SavedArticle(title, date)]
         /\ IF file <= Len(article_list)
            THEN /\ article_list' =
                       [article_list EXCEPT ![file] = DisplayText(SavedArticle(title, date))]
                 /\ lastOp' = Op("save_article", <<file>>, 0)
            ELSE /\ lastOp' = Op("save_raised", <<file>>, 0)
                 /\ UNCHANGED article_list
         /\ UNCHANGED filtered_indices
    ELSE /\ current_file' = Len(articles) + 1
         /\ articles' = Append(articles, SavedArticle(title, date))
         /\ article_list' = Append(article_list, DisplayText(SavedArticle(title, date)))
         /\ lastOp' = Op("save_article", <<Len(articles) + 1>>, 0)
         /\ UNCHANGED filtered_indices

\* save_article: without a current file a title is required and a path is
\* asked for (chosen: 0 when the dialog is cancelled, the path of a listed
\* article or of another file otherwise); then the file is written and the
\* list is updated
SaveArticle(title, date, chosen, written) ==
    /\ Step
    /\ IF current_file = NoFile /\ (title = <<>> \/ chosen = NoFile)
       THEN /\ written
            /\ lastOp' = Op("save_cancelled", <<>>, 0)
            /\ UNCHANGED <<articles, listVars>>
       ELSE SaveTo(IF current_file = NoFile THEN chosen ELSE current_file,
                   title, date, written)
    /\ current_file # NoFile => chosen = NoFile
    /\ UNCHANGED <<catVars, tagVars, saveFailures>>

\* show_category_manager: builds the manager on first use, then rescans
ShowCategoryManager(saveOk) ==
    LET loaded == IF hasCatMgr THEN categories ELSE LoadConfig(config)
        result == ScanResult(loaded, articles)
    IN /\ Step
       /\ hasCatMgr' = TRUE
       /\ categories' = result
       /\ tree' = result
       /\ SaveConfig(result, saveOk)
       /\ published' = Flatten(result)
       /\ lastOp' = Op("scan_articles", <<>>, 0)
       /\ UNCHANGED <<articles, listVars, tagVars>>

\* The application is closed and started again: HexoEditor.__init__
Restart ==
    /\ Step
    /\ hasCatMgr \/ hasTagMgr
    /\ articles' = <<>>
    /\ article_list' = <<>>
    /\ filtered_indices' = NoFilter
    /\ current_file' = NoFile
    /\ hasCatMgr' = FALSE
    /\ categories' = EmptyDict
    /\ tree' = EmptyDict
    /\ published' = {}
    /\ hasTagMgr' = FALSE
    /\ tags' = EmptyDict
    /\ tagTree' = EmptyDict
    /\ tagsPublished' = {}
    /\ lastOp' = Op("restart", <<>>, 0)
    /\ UNCHANGED <<config, tagConfig, saveFailures>>

----------------------------------------------------------------------------
(* CategoryManager.edit_category *)

\* Mutant: a rename onto an existing top-level name adds the counts instead
\* of replacing the node
EditOutcomeSumming(cats, item, new_name) ==
    LET old_name == ItemName(item)
    IN IF HasParent(item)
       THEN LET main_cat == ParentName(item)
            IN IF main_cat \in DOMAIN cats /\ old_name \in DOMAIN Subs(cats, main_cat)
               THEN [raised |-> FALSE,
                     cats |-> SetSub(PopSub(cats, main_cat, old_name), main_cat,
                                     new_name, Subs(cats, main_cat)[old_name])]
               ELSE [raised |-> TRUE, cats |-> cats]
       ELSE IF old_name \in DOMAIN cats
            THEN [raised |-> FALSE,
                  cats |-> DictSet(DictPop(cats, old_name), new_name,
                                   IF new_name \in DOMAIN cats
                                   THEN [cats[old_name] EXCEPT
                                            !.count = @ + cats[new_name].count]
                                   ELSE cats[old_name])]
            ELSE [raised |-> TRUE, cats |-> cats]

\* Mutant: the renamed subcategory's count is also taken off its parent
EditOutcomeTouchesParent(cats, item, new_name) ==
    LET old_name == ItemName(item)
    IN IF HasParent(item)
       THEN LET main_cat == ParentName(item)
            IN IF main_cat \in DOMAIN cats /\ old_name \in DOMAIN Subs(cats, main_cat)
               THEN [raised |-> FALSE,
                     cats |-> SetCount(SetSub(PopSub(cats, main_cat, old_name), main_cat,
                                              new_name, Subs(cats, main_cat)[old_name]),
                                       main_cat, 0)]
               ELSE [raised |-> TRUE, cats |-> cats]
       ELSE IF old_name \in DOMAIN cats
            THEN [raised |-> FALSE,
                  cats |-> DictSet(DictPop(cats, old_name), new_name, cats[old_name])]
            ELSE [raised |-> TRUE, cats |-> cats]

\* The store after the rename; raised: a KeyError left the handler before
\* updateTree and saveConfig
EditOutcome(cats, item, new_name) ==
    LET old_name == ItemName(item)
    IN IF HasParent(item)
       THEN LET main_cat == ParentName(item)
            IN IF main_cat \in DOMAIN cats /\ old_name \in DOMAIN Subs(cats, main_cat)
               THEN [raised |-> FALSE,
                     cats |-> SetSub(PopSub(cats, main_cat, old_name), main_cat,
                                     new_name, Subs(cats, main_cat)[old_name])]
               ELSE [raised |-> TRUE, cats |-> cats]
       ELSE IF old_name \in DOMAIN cats
            THEN [raised |-> FALSE,
                  cats |-> DictSet(DictPop(cats, old_name), new_name, cats[old_name])]
            ELSE [raised |-> TRUE, cats |-> cats]

EditCategory(item, new_name, saveOk) ==
    /\ Step
    /\ hasCatMgr
    /\ item \in Items(tree)
    /\ new_name # <<>> /\ new_name # ItemName(item)
    /\ LET out == EditOutcome(categories, item, new_name)
       IN /\ categories' = out.cats
          /\ IF out.raised
             THEN /\ saveOk
                  /\ lastOp' = Op("edit_raised", <<item>>, 1)
                  /\ UNCHANGED <<tree, config, saveFailures>>
             ELSE /\ tree' = out.cats
                  /\ SaveConfig(out.cats, saveOk)
                  /\ lastOp' = Op("edit_category", <<item, <<new_name>>>>, 1)
    /\ UNCHANGED <<articles, listVars, hasCatMgr, published, tagVars>>

----------------------------------------------------------------------------
(* Front matter: save_article writes it, load_article reads it *)

\* A text is a sequence of characters; the keys of the front matter stand as
\* one element each
NL == "\n"
Delimiter == <<"-", "-", "-">>
Whitespace == {" ", NL}

StartsWith(text, prefix) ==
    Len(text) >= Len(prefix) /\ SubSeq(text, 1, Len(prefix)) = prefix

\* text.find(sub, from): the first position at or after from, 0 when none
FindFrom(text, sub, from) ==
    LET hits == {k \in from..(Len(text) - Len(sub) + 1) :
                    SubSeq(text, k, k + Len(sub) - 1) = sub}
    IN IF hits = {} THEN 0 ELSE CHOOSE k \in hits : \A j \in hits : k <= j

\* text.split('---', 2): at most three parts, cut at the first two occurrences
SplitDelimiter(text) ==
    LET a == FindFrom(text, Delimiter, 1)
    IN IF a = 0 THEN <<text>>
       ELSE LET b == FindFrom(text, Delimiter, a + 3)
            IN IF b = 0
               THEN <<SubSeq(text, 1, a - 1), SubSeq(text, a + 3, Len(text))>>
               ELSE <<SubSeq(text, 1, a - 1), SubSeq(text, a + 3, b - 1),
                      SubSeq(text, b + 3, Len(text))>>

RECURSIVE Strip(_)
\* text.strip()
Strip(text) ==
    IF text = <<>> THEN <<>>
    ELSE IF Head(text) \in Whitespace THEN Strip(Tail(text))
    ELSE IF text[Len(text)] \in Whitespace THEN Strip(SubSeq(text, 1, Len(text) - 1))
    ELSE text

RECURSIVE Lines(_)
\* The lines of a text, without their line ends
Lines(text) ==
    LET n == FindFrom(text, <<NL>>, 1)
    IN IF n = 0 THEN <<text>>
       ELSE <<SubSeq(text, 1, n - 1)>> \o Lines(SubSeq(text, n + 1, Len(text)))

\* yaml.dump of a string: plain where YAML reads it back as the same string,
\* in single quotes otherwise (empty, a lone dash, a document marker)
PlainAllowed(value) ==
    /\ value # <<>>
    /\ value # <<"-">>
    /\ ~StartsWith(value, Delimiter)

YamlScalar(value) ==
    IF PlainAllowed(value) THEN value ELSE <<"'">> \o value \o <<"'">>

YamlEntry(key, value) == <<key, ":", " ">> \o YamlScalar(value) \o <<NL>>

RECURSIVE YamlItems(_)
YamlItems(items) ==
    IF items = <<>> THEN <<>>
    ELSE <<"-", " ">> \o YamlScalar(Head(items)) \o <<NL>> \o YamlItems(Tail(items))

\* categories and tags are emitted only when they are not empty
YamlList(key, items) ==
    IF items = <<>> THEN <<>> ELSE <<key, ":", NL>> \o YamlItems(items)

\* yaml.dump(front_matter, allow_unicode=True, sort_keys=False)
YamlDump(form) ==
    YamlEntry("title", form.title) \o YamlEntry("date", form.date)
        \o YamlEntry("cover", form.cover)
        \o YamlList("categories", form.categories) \o YamlList("tags", form.tags)

\* save_article: a content that starts with the delimiter and holds a second
\* one is taken for a document and cut down to what follows it
ContentToSave(content) ==
    IF StartsWith(content, Delimiter) /\ Len(SplitDelimiter(content)) = 3
    THEN Strip(SplitDelimiter(content)[3])
    ELSE content

\* final_content = f"---\n{yaml_content}---\n\n{content}"
Encode(form) ==
    Delimiter \o <<NL>> \o YamlDump(form) \o Delimiter \o <<NL, NL>>
        \o ContentToSave(form.body)

ScalarKeys == {"title", "date", "cover"}
ListKeys == {"categories", "tags"}

\* A scalar of the YAML text: quoted and closed, or plain
ParseScalar(text) ==
    IF text = <<>> THEN [ok |-> FALSE, value |-> <<>>]
    ELSE IF Head(text) = "'"
         THEN IF Len(text) >= 2 /\ text[Len(text)] = "'"
                 /\ \A k \in 2..(Len(text) - 1) : text[k] # "'"
              THEN [ok |-> TRUE, value |-> SubSeq(text, 2, Len(text) - 1)]
              ELSE [ok |-> FALSE, value |-> <<>>]
         ELSE [ok |-> \A k \in 1..Len(text) : text[k] # "'", value |-> text]

NoMetadata ==
    [ok |-> TRUE, seen |-> FALSE, open |-> "", title |-> <<>>, date |-> <<>>,
     cover |-> <<>>, categories |-> <<>>, tags |-> <<>>]

\* One line of the YAML text added to the mapping read so far
ParseLine(m, line) ==
    IF ~m.ok \/ line = <<>> THEN m
    ELSE IF Len(line) >= 3 /\ line[1] \in ScalarKeys /\ line[2] = ":" /\ line[3] = " "
    THEN LET v == ParseScalar(SubSeq(line, 4, Len(line)))
         IN IF ~v.ok THEN [m EXCEPT !.ok = FALSE]
            ELSE IF line[1] = "title"
                 THEN [m EXCEPT !.seen = TRUE, !.open = "", !.title = v.value]
            ELSE IF line[1] = "date"
                 THEN [m EXCEPT !.seen = TRUE, !.open = "", !.date = v.value]
            ELSE [m EXCEPT !.seen = TRUE, !.open = "", !.cover = v.value]
    ELSE IF Len(line) = 2 /\ line[1] \in ListKeys /\ line[2] = ":"
    THEN [m EXCEPT !.seen = TRUE, !.open = line[1]]
    ELSE IF Len(line) >= 2 /\ line[1] = "-" /\ line[2] = " " /\ m.open # ""
    THEN LET v == ParseScalar(SubSeq(line, 3, Len(line)))
         IN IF ~v.ok THEN [m EXCEPT !.ok = FALSE]
            ELSE IF m.open = "categories"
                 THEN [m EXCEPT !.categories = Append(@, v.value)]
                 ELSE [m EXCEPT !.tags = Append(@, v.value)]
    ELSE [m EXCEPT !.ok = FALSE]

RECURSIVE ParseLines(_, _)
ParseLines(m, lines) ==
    IF lines = <<>> THEN m ELSE ParseLines(ParseLine(m, Head(lines)), Tail(lines))

\* yaml.safe_load(fm) followed by the metadata.get calls: a text that is not
\* a mapping of the known keys, or no mapping at all, makes load_article raise
ParseYaml(fm) ==
    LET m == ParseLines(NoMetadata, Lines(fm))
    IN [m EXCEPT !.ok = m.ok /\ m.seen]

Undecoded ==
    [ok |-> FALSE, title |-> <<>>, date |-> <<>>, cover |-> <<>>,
     categories |-> <<>>, tags |-> <<>>, body |-> <<>>]

\* Mutant: the content is not stripped and keeps the blank line that follows
\* the closing delimiter
DecodeKeepsBlankLine(text) ==
    IF StartsWith(text, Delimiter)
    THEN LET parts == SplitDelimiter(text)
         IN IF Len(parts) # 3 THEN Undecoded
            ELSE LET m == ParseYaml(parts[2])
                 IN IF ~m.ok THEN Undecoded
                    ELSE [ok |-> TRUE, title |-> m.title, date |-> m.date,
                          cover |-> m.cover, categories |-> m.categories,
                          tags |-> m.tags, body |-> parts[3]]
    ELSE [Undecoded EXCEPT !.ok = TRUE, !.body = Strip(text)]

\* load_article: the text of the file to the fields of the form
Decode(text) ==
    IF StartsWith(text, Delimiter)
    THEN LET parts == SplitDelimiter(text)
         IN IF Len(parts) # 3 THEN Undecoded
            ELSE LET m == ParseYaml(parts[2])
                 IN IF ~m.ok THEN Undecoded
                    ELSE [ok |-> TRUE, title |-> m.title, date |-> m.date,
                          cover |-> m.cover, categories |-> m.categories,
                          tags |-> m.tags, body |-> Strip(parts[3])]
    ELSE [Undecoded EXCEPT !.ok = TRUE, !.body = Strip(text)]

NoForm ==
    [title |-> <<>>, date |-> <<>>, cover |-> <<>>, categories |-> <<>>,
     tags |-> <<>>, body |-> <<>>]

NoDocument == [stage |-> "none", form |-> NoForm, text |-> <<>>, loaded |-> Undecoded]

\* The fields of the form are filled in
EditForm(form) ==
    /\ document' = [stage |-> "edited", form |-> form, text |-> <<>>,
                    loaded |-> Undecoded]
    /\ UNCHANGED <<workerVars, articles, listVars, catVars, tagVars, saveFailures,
                   ops, lastOp, selector>>

\* save_article: the front matter and the content are written to the file
WriteDocument ==
    /\ document.stage = "edited"
    /\ document' = [document EXCEPT !.stage = "saved", !.text = Encode(document.form)]
    /\ UNCHANGED <<workerVars, articles, listVars, catVars, tagVars, saveFailures,
                   ops, lastOp, selector>>

\* load_article: the file is read back
ReadDocument ==
    /\ document.stage = "saved"
    /\ document' = [document EXCEPT !.stage = "loaded", !.loaded = Decode(document.text)]
    /\ UNCHANGED <<workerVars, articles, listVars, catVars, tagVars, saveFailures,
                   ops, lastOp, selector>>

----------------------------------------------------------------------------
(* CategorySelector *)

NoSelector == [open |-> FALSE, categories |-> EmptyDict, hidden |-> {}]

\* One operation inside the selector dialog
SelectorStep ==
    /\ ops < MaxOps
    /\ ops' = ops + 1
    /\ UNCHANGED <<workerVars, articles, listVars, catVars, tagVars, saveFailures,
                   document>>

\* select_categories: the dialog is built from the store, nothing is hidden
SelectCategories ==
    /\ SelectorStep
    /\ hasCatMgr
    /\ ~selector.open
    /\ selector' = [open |-> TRUE, categories |-> categories, hidden |-> {}]
    /\ lastOp' = Op("select_categories", <<>>, 0)

\* Mutant: the visibility of the children is not passed up to the item
FilterItemOwnNameOnly(cats, item, text) ==
    Contains(Lower(text), Lower(ItemName(item)))

RECURSIVE FilterItem(_, _, _)
\* filter_item(item): whether the item is visible after the filter
FilterItem(cats, item, text) ==
    LET own == Contains(Lower(text), Lower(ItemName(item)))
    IN IF HasParent(item) THEN own
       ELSE own \/ \E sub \in DOMAIN Subs(cats, ItemName(item)) :
                      FilterItem(cats, <<ItemName(item), sub>>, text)

\* filter_categories(text): setHidden(not visible) on every item of the tree
FilterCategories(text) ==
    /\ SelectorStep
    /\ selector.open
    /\ selector' = [selector EXCEPT
                       !.hidden = {item \in Items(selector.categories) :
                                      ~FilterItem(selector.categories, item, text)}]
    /\ lastOp' = Op("filter_categories", <<text>>, 0)

\* The dialog is accepted or rejected
CloseSelector ==
    /\ SelectorStep
    /\ selector.open
    /\ selector' = NoSelector
    /\ lastOp' = Op("close_selector", <<>>, 0)

----------------------------------------------------------------------------
(* CategoryManager.delete_category *)

\* Mutant: the item leaves the tree view, the dict keeps the node
DeleteOutcomeViewOnly(cats, item) == [raised |-> FALSE, cats |-> cats]

DeleteOutcome(cats, item) ==
    LET name == ItemName(item)
    IN IF HasParent(item)
       THEN LET main_cat == ParentName(item)
            IN IF main_cat \in DOMAIN cats /\ name \in DOMAIN Subs(cats, main_cat)
               THEN [raised |-> FALSE, cats |-> PopSub(cats, main_cat, name)]
               ELSE [raised |-> TRUE, cats |-> cats]
       ELSE IF name \in DOMAIN cats
            THEN [raised |-> FALSE, cats |-> DictPop(cats, name)]
            ELSE [raised |-> TRUE, cats |-> cats]

DeleteCategory(item, saveOk) ==
    /\ Step
    /\ hasCatMgr
    /\ item \in Items(tree)
    /\ LET out == DeleteOutcome(categories, item)
       IN /\ categories' = out.cats
          /\ IF out.raised
             THEN /\ saveOk
                  /\ lastOp' = Op("delete_raised", <<item>>, 1)
                  /\ UNCHANGED <<tree, config, saveFailures>>
             ELSE /\ tree' = out.cats
                  /\ SaveConfig(out.cats, saveOk)
                  /\ lastOp' = Op("delete_category", <<item>>, 1)
    /\ UNCHANGED <<articles, listVars, hasCatMgr, published, tagVars>>

----------------------------------------------------------------------------
(* CategoryManager.merge_categories *)

\* Mutant: the source's subcategories replace the target's of the same name
\* (dict.update) instead of being summed
MergeTopTopOverwrite(cats, source_name, target_name) ==
    IF source_name \notin DOMAIN cats
    THEN [raised |-> TRUE, cats |-> cats]
    ELSE LET source_data == cats[source_name]
             c1 == DictPop(cats, source_name)
         IN IF target_name \notin DOMAIN c1
            THEN [raised |-> TRUE, cats |-> c1]
            ELSE LET c2 == SetCount(c1, target_name,
                                    c1[target_name].count + source_data.count)
                     src == source_data.subcategories
                     tgt == Subs(c2, target_name)
                     merged == [s \in (DOMAIN tgt) \cup (DOMAIN src) |->
                                  IF s \in DOMAIN src THEN src[s] ELSE tgt[s]]
                 IN [raised |-> FALSE,
                     cats |-> DictSet(c2, target_name,
                                      [c2[target_name] EXCEPT !.subcategories = merged])]

\* source_parent is None and target_parent is None
MergeTopTop(cats, source_name, target_name) ==
    IF source_name \notin DOMAIN cats
    THEN [raised |-> TRUE, cats |-> cats]
    ELSE LET source_data == cats[source_name]
             c1 == DictPop(cats, source_name)
         IN IF target_name \notin DOMAIN c1
            THEN [raised |-> TRUE, cats |-> c1]
            ELSE LET c2 == SetCount(c1, target_name,
                                    c1[target_name].count + source_data.count)
                     src == source_data.subcategories
                     tgt == Subs(c2, target_name)
                     merged == [s \in (DOMAIN tgt) \cup (DOMAIN src) |->
                                  IF s \in DOMAIN src
                                  THEN (IF s \in DOMAIN tgt THEN tgt[s] + src[s]
                                                           ELSE src[s])
                                  ELSE tgt[s]]
                 IN [raised |-> FALSE,
                     cats |-> DictSet(c2, target_name,
                                      [c2[target_name] EXCEPT !.subcategories = merged])]

\* Mutant: the source's count is read with [] and its key is not removed
MergeSubSubKeepsSource(cats, source_parent_name, source_name, target_parent_name, target_name) ==
    IF \/ source_parent_name \notin DOMAIN cats
       \/ source_name \notin DOMAIN Subs(cats, source_parent_name)
    THEN [raised |-> TRUE, cats |-> cats]
    ELSE LET source_count == Subs(cats, source_parent_name)[source_name]
         IN IF target_parent_name \notin DOMAIN cats
            THEN [raised |-> TRUE, cats |-> cats]
            ELSE [raised |-> FALSE,
                  cats |-> AddSub(cats, target_parent_name, target_name, source_count)]

\* source_parent and target_parent
MergeSubSub(cats, source_parent_name, source_name, target_parent_name, target_name) ==
    IF \/ source_parent_name \notin DOMAIN cats
       \/ source_name \notin DOMAIN Subs(cats, source_parent_name)
    THEN [raised |-> TRUE, cats |-> cats]
    ELSE LET source_count == Subs(cats, source_parent_name)[source_name]
             c1 == PopSub(cats, source_parent_name, source_name)
         IN IF target_parent_name \notin DOMAIN c1
            THEN [raised |-> TRUE, cats |-> c1]
            ELSE [raised |-> FALSE,
                  cats |-> AddSub(c1, target_parent_name, target_name, source_count)]

\* Mutant: the absorbed subcategory is also added again under the target
MergeSubTopAsChild(cats, source_parent_name, source_name, target_name) ==
    IF \/ source_parent_name \notin DOMAIN cats
       \/ source_name \notin DOMAIN Subs(cats, source_parent_name)
    THEN [raised |-> TRUE, cats |-> cats]
    ELSE LET source_count == Subs(cats, source_parent_name)[source_name]
             c1 == PopSub(cats, source_parent_name, source_name)
         IN IF target_name \notin DOMAIN c1
            THEN [raised |-> TRUE, cats |-> c1]
            ELSE [raised |-> FALSE,
                  cats |-> AddSub(SetCount(c1, target_name,
                                           c1[target_name].count + source_count),
                                  target_name, source_name, source_count)]

\* source_parent only
MergeSubTop(cats, source_parent_name, source_name, target_name) ==
    IF \/ source_parent_name \notin DOMAIN cats
       \/ source_name \notin DOMAIN Subs(cats, source_parent_name)
    THEN [raised |-> TRUE, cats |-> cats]
    ELSE LET source_count == Subs(cats, source_parent_name)[source_name]
             c1 == PopSub(cats, source_parent_name, source_name)
         IN IF target_name \notin DOMAIN c1
            THEN [raised |-> TRUE, cats |-> c1]
            ELSE [raised |-> FALSE,
                  cats |-> SetCount(c1, target_name,
                                    c1[target_name].count + source_count)]

RECURSIVE AddSubs(_, _, _, _)
\* for sub_name, sub_count in source_data['subcategories'].items(): sum or create
AddSubs(cats, m, src, names) ==
    IF names = {} THEN cats
    ELSE LET sub_name == CHOOSE n \in names : TRUE
         IN AddSubs(AddSub(cats, m, sub_name, src[sub_name]), m, src,
                    names \ {sub_name})

\* Mutant: the subcategories of the absorbed category are not moved
MergeTopSubDropsChildren(cats, source_name, target_parent_name, target_name) ==
    IF source_name \notin DOMAIN cats
    THEN [raised |-> TRUE, cats |-> cats]
    ELSE LET source_data == cats[source_name]
             c1 == DictPop(cats, source_name)
         IN IF target_parent_name \notin DOMAIN c1
            THEN [raised |-> TRUE, cats |-> c1]
            ELSE [raised |-> FALSE,
                  cats |-> AddSub(c1, target_parent_name, target_name,
                                  source_data.count)]

\* target_parent only
MergeTopSub(cats, source_name, target_parent_name, target_name) ==
    IF source_name \notin DOMAIN cats
    THEN [raised |-> TRUE, cats |-> cats]
    ELSE LET source_data == cats[source_name]
             c1 == DictPop(cats, source_name)
         IN IF target_parent_name \notin DOMAIN c1
            THEN [raised |-> TRUE, cats |-> c1]
            ELSE LET c2 == AddSub(c1, target_parent_name, target_name,
                                  source_data.count)
                 IN [raised |-> FALSE,
                     cats |-> AddSubs(c2, target_parent_name,
                                      source_data.subcategories,
                                      DOMAIN source_data.subcategories)]

\* The structural case of a selection of two items
MergeCase(source_item, target_item) ==
    IF ~HasParent(source_item) /\ ~HasParent(target_item) THEN 1
    ELSE IF HasParent(source_item) /\ HasParent(target_item) THEN 2
    ELSE IF HasParent(source_item) THEN 3
    ELSE 4

\* The try block of merge_categories; raised: the except clause was entered,
\* so updateTree and saveConfig did not run
MergeOutcome(cats, source_item, target_item) ==
    LET source_name == ItemName(source_item)
        target_name == ItemName(target_item)
    IN CASE MergeCase(source_item, target_item) = 1 ->
              MergeTopTop(cats, source_name, target_name)
         [] MergeCase(source_item, target_item) = 2 ->
              MergeSubSub(cats, ParentName(source_item), source_name,
                          ParentName(target_item), target_name)
         [] MergeCase(source_item, target_item) = 3 ->
              MergeSubTop(cats, ParentName(source_item), source_name, target_name)
         [] OTHER ->
              MergeTopSub(cats, source_name, ParentName(target_item), target_name)

\* Mutant: a selection of more than two items is merged by its first two
MergeAcceptsTwoOrMore(items) == Len(items) >= 2

\* len(items) != 2: warn and return
MergeAccepts(items) == Len(items) = 2

MergeCategories(items, confirm, saveOk) ==
    /\ Step
    /\ hasCatMgr
    /\ items \in Selections(tree)
    /\ IF ~MergeAccepts(items)
       THEN /\ confirm /\ saveOk
            /\ lastOp' = Op("merge_rejected", <<>>, Len(items))
            /\ UNCHANGED <<categories, tree, config, saveFailures>>
       ELSE IF ~confirm
       THEN /\ saveOk
            /\ lastOp' = Op("merge_declined", <<>>, Len(items))
            /\ UNCHANGED <<categories, tree, config, saveFailures>>
       ELSE LET out == MergeOutcome(categories, items[1], items[2])
            IN /\ categories' = out.cats
               /\ IF out.raised
                  THEN /\ saveOk
                       /\ lastOp' = Op("merge_raised", items, Len(items))
                       /\ UNCHANGED <<tree, config, saveFailures>>
                  ELSE /\ tree' = out.cats
                       /\ SaveConfig(out.cats, saveOk)
                       /\ lastOp' = Op("merge_categories", items, Len(items))
    /\ UNCHANGED <<articles, listVars, hasCatMgr, published, tagVars>>

----------------------------------------------------------------------------
(* TagManager *)

\* TagManager.saveConfig
SaveTagConfig(t, saveOk) ==
    /\ saveOk \/ saveFailures < MaxSaveFailures
    /\ tagConfig' \in SavedConfig(tagConfig, t, saveOk)
    /\ saveFailures' = IF saveOk THEN saveFailures ELSE saveFailures + 1

\* self.tags[tag] = self.tags.get(tag, 0) + 1
TallyTag(t, tag) == DictSet(t, tag, Get0(t, tag) + 1)

RECURSIVE TallyTags(_, _)
TallyTags(t, list) ==
    IF list = <<>> THEN t
    ELSE TallyTags(TallyTag(t, Head(list)), Tail(list))

RECURSIVE TallyTagArticles(_, _)
TallyTagArticles(t, arts) ==
    IF arts = <<>> THEN t
    ELSE LET article == Head(arts)
             t1 == IF article.tagsIsList THEN TallyTags(t, article.tags) ELSE t
         IN TallyTagArticles(t1, Tail(arts))

\* Mutant: the tally is added to the table the dialog already holds
TagScanResultKeeps(t, arts) == TallyTagArticles(t, arts)

\* TagManager.scan_articles: self.tags.clear(), then the tally
TagScanResult(t, arts) == TallyTagArticles(EmptyDict, arts)

\* show_tag_manager: builds the manager on first use, then rescans
ShowTagManager(saveOk) ==
    LET loaded == IF hasTagMgr THEN tags ELSE LoadConfig(tagConfig)
        result == TagScanResult(loaded, articles)
    IN /\ Step
       /\ hasTagMgr' = TRUE
       /\ tags' = result
       /\ tagTree' = result
       /\ SaveTagConfig(result, saveOk)
       /\ tagsPublished' = DOMAIN result
       /\ lastOp' = Op("scan_tags", <<>>, 0)
       /\ UNCHANGED <<articles, listVars, catVars>>

\* The items of the tag list: one per key of the dict shown
TagItems(t) == DOMAIN t

TagSelections(t) ==
    LET all == SetToSeq(TagItems(t))
        sizes == {n \in 0..MaxSelected : n # 2 /\ n <= Len(all)}
    IN {SubSeq(all, 1, n) : n \in sizes}
         \cup {pair \in TagItems(t) \X TagItems(t) : pair[1] # pair[2]}

TagNames == {st, su, sv}

\* edit_tag
EditTagOutcome(t, old_name, new_name) ==
    IF old_name \in DOMAIN t
    THEN [raised |-> FALSE, tags |-> DictSet(DictPop(t, old_name), new_name, t[old_name])]
    ELSE [raised |-> TRUE, tags |-> t]

EditTag(item, new_name, saveOk) ==
    /\ Step
    /\ hasTagMgr
    /\ item \in TagItems(tagTree)
    /\ new_name # <<>> /\ new_name # item
    /\ LET out == EditTagOutcome(tags, item, new_name)
       IN /\ tags' = out.tags
          /\ IF out.raised
             THEN /\ saveOk
                  /\ lastOp' = Op("edit_tag_raised", <<item>>, 1)
                  /\ UNCHANGED <<tagTree, tagConfig, saveFailures>>
             ELSE /\ tagTree' = out.tags
                  /\ SaveTagConfig(out.tags, saveOk)
                  /\ lastOp' = Op("edit_tag", <<item, new_name>>, 1)
    /\ UNCHANGED <<articles, listVars, hasTagMgr, tagsPublished, catVars>>

\* Mutant: the count of the dropped tag is lost
MergeTagsOutcomeDropsCount(t, tag1, tag2) ==
    IF tag1 \in DOMAIN t /\ tag2 \in DOMAIN t
    THEN [raised |-> FALSE, tags |-> DictPop(t, tag2)]
    ELSE [raised |-> TRUE, tags |-> t]

\* merge_tags, after the confirmation: tag1 is kept, tag2 is dropped
MergeTagsOutcome(t, tag1, tag2) ==
    IF tag1 \in DOMAIN t /\ tag2 \in DOMAIN t
    THEN [raised |-> FALSE, tags |-> DictPop(DictSet(t, tag1, t[tag1] + t[tag2]), tag2)]
    ELSE [raised |-> TRUE, tags |-> t]

\* len(items) != 2: warn and return
MergeTagsAccepts(items) == Len(items) = 2

MergeTags(items, confirm, saveOk) ==
    /\ Step
    /\ hasTagMgr
    /\ items \in TagSelections(tagTree)
    /\ IF ~MergeTagsAccepts(items)
       THEN /\ confirm /\ saveOk
            /\ lastOp' = Op("merge_tags_rejected", <<>>, Len(items))
            /\ UNCHANGED <<tags, tagTree, tagConfig, saveFailures>>
       ELSE LET out == MergeTagsOutcome(tags, items[1], items[2])
            IN IF out.raised \/ ~confirm
               THEN /\ saveOk
                    /\ lastOp' = Op(IF out.raised THEN "merge_tags_raised"
                                    ELSE "merge_tags_declined", <<>>, Len(items))
                    /\ UNCHANGED <<tags, tagTree, tagConfig, saveFailures>>
               ELSE /\ tags' = out.tags
                    /\ tagTree' = out.tags
                    /\ SaveTagConfig(out.tags, saveOk)
                    /\ lastOp' = Op("merge_tags", items, Len(items))
    /\ UNCHANGED <<articles, listVars, hasTagMgr, tagsPublished, catVars>>

\* delete_tag
DeleteTagOutcome(t, name) ==
    IF name \in DOMAIN t
    THEN [raised |-> FALSE, tags |-> DictPop(t, name)]
    ELSE [raised |-> TRUE, tags |-> t]

DeleteTag(item, saveOk) ==
    /\ Step
    /\ hasTagMgr
    /\ item \in TagItems(tagTree)
    /\ LET out == DeleteTagOutcome(tags, item)
       IN /\ tags' = out.tags
          /\ IF out.raised
             THEN /\ saveOk
                  /\ lastOp' = Op("delete_tag_raised", <<item>>, 1)
                  /\ UNCHANGED <<tagTree, tagConfig, saveFailures>>
             ELSE /\ tagTree' = out.tags
                  /\ SaveTagConfig(out.tags, saveOk)
                  /\ lastOp' = Op("delete_tag", <<item>>, 1)
    /\ UNCHANGED <<articles, listVars, hasTagMgr, tagsPublished, catVars>>

----------------------------------------------------------------------------
(* The workers: FileLoader and ExportThread *)

\* The signals of a worker, in the order of their emission
Progress(value) == [sig |-> "progress", value |-> value]
Finished(value) == [sig |-> "finished", value |-> value]
Error == [sig |-> "error", value |-> 0]

\* Mutant: the share of the files still to do
PercentRemaining(done, total) == (100 * (total - done)) \div total

\* int((i + 1) / total_files * 100): for totals this small the truncated
\* float quotient is the integer quotient
Percent(done, total) == (100 * done) \div total

\* The dates of the files:  date: 10  and  date: "9"
DateValues == {IntValue(10), StrValue(<<"9">>)}

\* A markdown file: one that cannot be read or decoded, or one with a date
BadFile == [ok |-> FALSE, date |-> StrValue(<<>>)]
MdFiles == {BadFile} \cup {[ok |-> TRUE, date |-> d] : d \in DateValues}

\* The markdown files below a directory
Directories == UNION {[1..n -> MdFiles] : n \in 0..MaxFiles}

\* The directory exported, as the components of its path
SourceDir == <<"posts">>

\* A file that os.walk lists: the directory it is in below the source
\* directory, its name, and whether zipf.write can add it
Entry(dir, file, addable) == [dir |-> dir, file |-> file, addable |-> addable]

MdName == <<"a", ".", "m", "d">>
TxtName == <<"b", ".", "t", "x", "t">>

\* File names of every kind: the extensions in both cases, another
\* extension, and names that hold the letters of an extension without the dot
FileNames ==
    {MdName, <<"a", ".", "M", "D">>, <<"i", ".", "P", "N", "G">>,
     <<"i", ".", "j", "p", "g">>, TxtName, <<"m", "d">>, <<"p", "n", "g">>}

\* The directory of the k-th file that os.walk lists: the source directory
\* itself, then one level deeper for every further file
Nested(k) == [j \in 1..(k - 1) |-> "sub"]

\* The files below the source directory, with names drawn from a set
Walk(names) ==
    UNION {{[k \in 1..n |-> Entry(Nested(k), kinds[k][1], kinds[k][2])] :
                kinds \in [1..n -> names \X BOOLEAN]} : n \in 0..MaxFiles}

\* The files of SpecWorkers: markdown files that can or cannot be added, and
\* files of another kind
Entries ==
    {entries \in Walk({MdName, TxtName}) :
        \A k \in 1..Len(entries) : entries[k].file = TxtName => entries[k].addable}

EndsWith(text, suffix) ==
    /\ Len(text) >= Len(suffix)
    /\ SubSeq(text, Len(text) - Len(suffix) + 1, Len(text)) = suffix

MarkdownExtension == <<".", "m", "d">>

ImageExtensions ==
    {<<".", "p", "n", "g">>, <<".", "j", "p", "g">>, <<".", "j", "p", "e", "g">>,
     <<".", "g", "i", "f">>, <<".", "s", "v", "g">>}

\* Mutant: the markdown extension is compared after lower-casing as well
ToZipAnyCase(file) ==
    \/ EndsWith(Lower(file), MarkdownExtension)
    \/ \E ext \in ImageExtensions : EndsWith(Lower(file), ext)

\* file.endswith('.md') or file.lower().endswith(('.png', '.jpg', '.jpeg',
\* '.gif', '.svg'))
ToZip(file) ==
    \/ EndsWith(file, MarkdownExtension)
    \/ \E ext \in ImageExtensions : EndsWith(Lower(file), ext)

\* os.path.join(root, file) and os.path.relpath(full_path, source_dir), on
\* the components of the paths
FullPath(entry) == SourceDir \o entry.dir \o <<entry.file>>
RelPath(path, start) == SubSeq(path, Len(start) + 1, Len(path))

\* The pair appended to files_to_zip, with what zipf.write will do with it
ZipPair(entry) ==
    [full_path |-> FullPath(entry), rel_path |-> RelPath(FullPath(entry), SourceDir),
     addable |-> entry.addable]

RECURSIVE FilesToZip(_)
\* The loop over os.walk
FilesToZip(entries) ==
    IF entries = <<>> THEN <<>>
    ELSE (IF ToZip(Head(entries).file) THEN <<ZipPair(Head(entries))>> ELSE <<>>)
             \o FilesToZip(Tail(entries))

\* What rglob does with the directory: it lists the files; the path does not
\* exist and it lists nothing; it raises (an OSError that pathlib does not
\* ignore, as EACCES on a parent directory)
Listings == {"lists", "missing", "raises"}

RECURSIVE InsertByDate(_, _)
\* a goes before the first element with a smaller key
InsertByDate(sorted, a) ==
    IF sorted = <<>> THEN <<a>>
    ELSE IF StrLess(Str(Head(sorted).date), Str(a.date)) THEN <<a>> \o sorted
    ELSE <<Head(sorted)>> \o InsertByDate(Tail(sorted), a)

\* Mutant: the list is emitted in the order the files were read
SortArticlesMissing(arts) == arts

RECURSIVE SortArticles(_)
\* articles.sort(key=lambda x: str(x['date']), reverse=True): stable, so
\* articles with equal keys keep the order in which they were read
SortArticles(arts) ==
    IF arts = <<>> THEN <<>>
    ELSE InsertByDate(SortArticles(SubSeq(arts, 1, Len(arts) - 1)), arts[Len(arts)])

NoLoader ==
    [pc |-> "none", listing |-> "lists", md_files |-> <<>>, i |-> 0,
     articles |-> <<>>, log |-> <<>>]

NoExporter ==
    [pc |-> "none", opens |-> TRUE, closes |-> TRUE, entries |-> <<>>,
     files_to_zip |-> <<>>, i |-> 0, added |-> <<>>, closed |-> FALSE,
     log |-> <<>>]

\* select_directory: a directory is chosen, a new loader replaces the old one
\* and is started.  The content of a directory that is not listed is not
\* read, so it is left empty.
SelectDirectory(listing, md_files) ==
    /\ listing # "lists" => md_files = <<>>
    /\ loader' = [NoLoader EXCEPT !.pc = "start", !.listing = listing,
                                  !.md_files = md_files]
    /\ UNCHANGED <<earlier, exporter, editorVars>>

\* FileLoader.run: list(Path(directory).rglob("*.md")), under the outer try
LoaderList ==
    /\ loader.pc = "start"
    /\ loader' = IF loader.listing = "raises"
                 THEN [loader EXCEPT !.pc = "done", !.log = Append(@, Error)]
                 ELSE [loader EXCEPT !.pc = "loop"]
    /\ UNCHANGED <<earlier, exporter, editorVars>>

\* Mutant: the exception of a file reaches the outer except
LoaderReadFileAborts ==
    /\ loader.pc = "loop"
    /\ loader.i < Len(loader.md_files)
    /\ loader' =
          IF loader.md_files[loader.i + 1].ok
          THEN [loader EXCEPT
                   !.i = @ + 1,
                   !.articles = Append(@, [path |-> loader.i + 1,
                                           date |-> loader.md_files[loader.i + 1].date]),
                   !.log = Append(@, Progress(Percent(loader.i + 1,
                                                      Len(loader.md_files))))]
          ELSE [loader EXCEPT !.pc = "done", !.log = Append(@, Error)]
    /\ UNCHANGED <<earlier, exporter, editorVars>>

\* FileLoader.run: one turn of the loop; the progress signal is emitted inside
\* the try of the file, after the article was appended
LoaderReadFile ==
    /\ loader.pc = "loop"
    /\ loader.i < Len(loader.md_files)
    /\ loader' =
          IF loader.md_files[loader.i + 1].ok
          THEN [loader EXCEPT
                   !.i = @ + 1,
                   !.articles = Append(@, [path |-> loader.i + 1,
                                           date |-> loader.md_files[loader.i + 1].date]),
                   !.log = Append(@, Progress(Percent(loader.i + 1,
                                                      Len(loader.md_files))))]
          ELSE [loader EXCEPT !.i = @ + 1]
    /\ UNCHANGED <<earlier, exporter, editorVars>>

\* Mutant: a scan that found no file ends with the error signal
LoaderFinishEmptyIsError ==
    /\ loader.pc = "loop"
    /\ loader.i = Len(loader.md_files)
    /\ loader' = [loader EXCEPT
                     !.pc = "done",
                     !.log = IF loader.md_files = <<>>
                             THEN Append(@, Error)
                             ELSE Append(@, Finished(SortArticles(loader.articles)))]
    /\ UNCHANGED <<earlier, exporter, editorVars>>

\* FileLoader.run: after the loop, sort and emit finished
LoaderFinish ==
    /\ loader.pc = "loop"
    /\ loader.i = Len(loader.md_files)
    /\ loader' = [loader EXCEPT !.pc = "done",
                                !.log = Append(@, Finished(SortArticles(loader.articles)))]
    /\ UNCHANGED <<earlier, exporter, editorVars>>

\* The thread of a loader is running
InFlight(l) == l.pc \in {"start", "loop"}

\* select_directory while the loader is running, when the thread it replaces
\* runs on: its signals stay connected to the window.  At most two scans run
\* at a time.
SelectDirectoryOverlapping(listing, md_files) ==
    /\ InFlight(loader)
    /\ ~InFlight(earlier)
    /\ listing # "lists" => md_files = <<>>
    /\ earlier' = loader
    /\ loader' = [NoLoader EXCEPT !.pc = "start", !.listing = listing,
                                  !.md_files = md_files]
    /\ UNCHANGED <<exporter, editorVars>>

\* FileLoader.run, one step of it on the record of a loader: the listing, one
\* turn of the loop, or the sort and the finished signal
Advance(l) ==
    IF l.pc = "start"
    THEN IF l.listing = "raises"
         THEN [l EXCEPT !.pc = "done", !.log = Append(@, Error)]
         ELSE [l EXCEPT !.pc = "loop"]
    ELSE IF l.i < Len(l.md_files)
    THEN IF l.md_files[l.i + 1].ok
         THEN [l EXCEPT
                  !.i = @ + 1,
                  !.articles = Append(@, [path |-> l.i + 1,
                                          date |-> l.md_files[l.i + 1].date]),
                  !.log = Append(@, Progress(Percent(l.i + 1, Len(l.md_files))))]
         ELSE [l EXCEPT !.i = @ + 1]
    ELSE [l EXCEPT !.pc = "done", !.log = Append(@, Finished(SortArticles(l.articles)))]

\* metadata.get('title', <default>), for the files of the scans, which have
\* a date and no title; one character stands for the default title
Untitled == <<"-">>

\* The article the window holds for an entry of the payload of finished
ListedArticle(info) == Article(StrValue(Untitled), Str(info.date), <<>>, TRUE, <<>>, TRUE)

ListedArticles(payload) == [k \in 1..Len(payload) |-> ListedArticle(payload[k])]

\* The slots connected in select_directory, run for the signal a step of a
\* loader has emitted: finished goes to update_article_list; progress and
\* error change the progress bar and show a message
Deliver(l) ==
    IF l.pc = "done" /\ l.log[Len(l.log)].sig = "finished"
    THEN /\ articles' = ListedArticles(l.log[Len(l.log)].value)
         /\ article_list' = [k \in 1..Len(l.log[Len(l.log)].value) |->
                                 DisplayText(ListedArticle(l.log[Len(l.log)].value[k]))]
         /\ filtered_indices' = NoFilter
         /\ UNCHANGED current_file
    ELSE UNCHANGED <<articles, listVars>>

\* A step of self.loader, with the window's slot for what it emits
LoaderRuns ==
    /\ InFlight(loader)
    /\ loader' = Advance(loader)
    /\ Deliver(loader')
    /\ UNCHANGED <<earlier, exporter, catVars, tagVars, saveFailures, ops, lastOp,
                   selector, document>>

\* A step of the loader that was replaced, with the window's slot for what
\* it emits
EarlierRuns ==
    /\ InFlight(earlier)
    /\ earlier' = Advance(earlier)
    /\ Deliver(earlier')
    /\ UNCHANGED <<loader, exporter, catVars, tagVars, saveFailures, ops, lastOp,
                   selector, document>>

\* export_articles: needs a loader; a target file is chosen, a new exporter
\* replaces the old one and is started.  Whether the archive can be closed is
\* drawn only for an archive that opens.
ExportArticles(opens, entries, closes) ==
    /\ loader.pc # "none"
    /\ exporter' = [NoExporter EXCEPT !.pc = "start", !.opens = opens,
                                      !.entries = entries, !.closes = closes]
    /\ UNCHANGED <<loader, earlier, editorVars>>

\* Mutant: an archive that cannot be opened is reported as a finished export
ExporterOpenIgnoresFailure ==
    /\ exporter.pc = "start"
    /\ exporter' =
          IF exporter.opens
          THEN [exporter EXCEPT
                   !.pc = "loop",
                   !.files_to_zip = FilesToZip(exporter.entries)]
          ELSE [exporter EXCEPT !.pc = "done", !.log = Append(@, Finished(0))]
    /\ UNCHANGED <<loader, earlier, editorVars>>

\* ExportThread.run: open the archive, then collect the .md and image files
ExporterOpen ==
    /\ exporter.pc = "start"
    /\ exporter' =
          IF exporter.opens
          THEN [exporter EXCEPT
                   !.pc = "loop",
                   !.files_to_zip = FilesToZip(exporter.entries)]
          ELSE [exporter EXCEPT !.pc = "done", !.log = Append(@, Error)]
    /\ UNCHANGED <<loader, earlier, editorVars>>

\* Mutant: a file that cannot be added ends the export with an error
ExporterWriteFileAborts ==
    /\ exporter.pc = "loop"
    /\ exporter.i < Len(exporter.files_to_zip)
    /\ exporter' =
          IF exporter.files_to_zip[exporter.i + 1].addable
          THEN [exporter EXCEPT
                   !.i = @ + 1,
                   !.added = Append(@, exporter.i + 1),
                   !.log = Append(@, Progress(Percent(exporter.i + 1,
                                                      Len(exporter.files_to_zip))))]
          ELSE [exporter EXCEPT !.pc = "done", !.log = Append(@, Error)]
    /\ UNCHANGED <<loader, earlier, editorVars>>

\* ExportThread.run: one turn of the loop; a file that cannot be added is
\* skipped without a progress signal
ExporterWriteFile ==
    /\ exporter.pc = "loop"
    /\ exporter.i < Len(exporter.files_to_zip)
    /\ exporter' =
          IF exporter.files_to_zip[exporter.i + 1].addable
          THEN [exporter EXCEPT
                   !.i = @ + 1,
                   !.added = Append(@, exporter.i + 1),
                   !.log = Append(@, Progress(Percent(exporter.i + 1,
                                                      Len(exporter.files_to_zip))))]
          ELSE [exporter EXCEPT !.i = @ + 1]
    /\ UNCHANGED <<loader, earlier, editorVars>>

\* Mutant: finished is emitted inside the with block, before the archive is
\* closed
ExporterCloseEmitsFirst ==
    /\ exporter.pc = "loop"
    /\ exporter.i = Len(exporter.files_to_zip)
    /\ exporter' =
          [exporter EXCEPT
              !.pc = "done",
              !.closed = exporter.closes,
              !.log = IF exporter.closes
                      THEN Append(@, Finished(0))
                      ELSE Append(Append(@, Finished(0)), Error)]
    /\ UNCHANGED <<loader, earlier, editorVars>>

\* Mutant: an archive that cannot be closed is taken for closed
ExporterCloseIgnoresFailure ==
    /\ exporter.pc = "loop"
    /\ exporter.i = Len(exporter.files_to_zip)
    /\ exporter' = [exporter EXCEPT !.pc = "closed"]
    /\ UNCHANGED <<loader, earlier, editorVars>>

\* ExportThread.run: the with block ends and closes the archive; a failing
\* close goes to the outer except, which emits error
ExporterClose ==
    /\ exporter.pc = "loop"
    /\ exporter.i = Len(exporter.files_to_zip)
    /\ exporter' =
          IF exporter.closes
          THEN [exporter EXCEPT !.pc = "closed", !.closed = TRUE]
          ELSE [exporter EXCEPT !.pc = "done", !.log = Append(@, Error)]
    /\ UNCHANGED <<loader, earlier, editorVars>>

\* ExportThread.run: self.finished.emit(), after the with block
ExporterFinish ==
    /\ exporter.pc = "closed"
    /\ exporter' = [exporter EXCEPT !.pc = "done", !.log = Append(@, Finished(0))]
    /\ UNCHANGED <<loader, earlier, editorVars>>

----------------------------------------------------------------------------
(* The editor driving the two managers *)

InitCatVars ==
    /\ hasCatMgr = FALSE
    /\ categories = EmptyDict
    /\ tree = EmptyDict
    /\ config = NoConfig
    /\ published = {}

InitTagVars ==
    /\ hasTagMgr = FALSE
    /\ tags = EmptyDict
    /\ tagTree = EmptyDict
    /\ tagConfig = NoConfig
    /\ tagsPublished = {}

Init ==
    /\ articles = <<>>
    /\ article_list = <<>>
    /\ filtered_indices = NoFilter
    /\ current_file = NoFile
    /\ selector = NoSelector
    /\ document = NoDocument
    /\ InitCatVars
    /\ InitTagVars
    /\ saveFailures = 0
    /\ ops = 0
    /\ lastOp = [op |-> "init", items |-> <<>>, selected |-> 0,
                 pre |-> [op |-> "none", items |-> <<>>, articles |-> <<>>,
                          categories |-> EmptyDict, config |-> NoConfig,
                          published |-> {}, tags |-> EmptyDict,
                          tagConfig |-> NoConfig, tagsPublished |-> {},
                          saveFailures |-> 0, hasCatMgr |-> FALSE]]
    /\ loader = NoLoader
    /\ earlier = NoLoader
    /\ exporter = NoExporter

\* SaveOutcomes: the outcomes of writing the configuration file
CatOps(SaveOutcomes) ==
    \/ \E saveOk \in SaveOutcomes : ShowCategoryManager(saveOk)
    \/ \E item \in Items(tree), saveOk \in SaveOutcomes :
          \E new_name \in NewNames(item) : EditCategory(item, new_name, saveOk)
    \/ \E items \in Selections(tree), confirm \in BOOLEAN, saveOk \in SaveOutcomes :
          MergeCategories(items, confirm, saveOk)
    \/ \E item \in Items(tree), saveOk \in SaveOutcomes : DeleteCategory(item, saveOk)

EditorOps ==
    \/ \E arts \in Corpora : UpdateArticleList(arts)
    \/ Restart

TagOps(SaveOutcomes) ==
    \/ \E saveOk \in SaveOutcomes : ShowTagManager(saveOk)
    \/ \E item \in TagItems(tagTree), saveOk \in SaveOutcomes :
          \E new_name \in TagNames : EditTag(item, new_name, saveOk)
    \/ \E items \in TagSelections(tagTree), confirm \in BOOLEAN, saveOk \in SaveOutcomes :
          MergeTags(items, confirm, saveOk)
    \/ \E item \in TagItems(tagTree), saveOk \in SaveOutcomes : DeleteTag(item, saveOk)

\* The category manager on a disk that takes every write
NextCat == EditorOps \/ CatOps({TRUE})

SpecCat == Init /\ [][NextCat]_vars

\* The tag manager on a disk that takes every write
NextTag == EditorOps \/ TagOps({TRUE})

SpecTag == Init /\ [][NextTag]_vars

\* Both managers on a disk that takes every write
NextTax == EditorOps \/ CatOps({TRUE}) \/ TagOps({TRUE})

SpecTax == Init /\ [][NextTax]_vars

\* Both managers on a disk where a write can fail, over the scans that found
\* at most one article
NextSave ==
    \/ \E arts \in {c \in Corpora : Len(c) <= 1} : UpdateArticleList(arts)
    \/ Restart
    \/ CatOps(BOOLEAN)
    \/ TagOps(BOOLEAN)

SpecSave == Init /\ [][NextSave]_vars

\* The titles of the articles listed: strings in both cases, and the integer
\* that  title: 7  is read as
TitleValues == {StrValue(<<"A", "b">>), StrValue(<<"b">>), IntValue(7)}

ListedKinds == {Article(title, <<"9">>, <<>>, TRUE, <<>>, TRUE) : title \in TitleValues}

ListedCorpora == SeqsUpTo(ListedKinds, MaxArticles)

\* The texts typed into the search box
Queries == {<<>>, <<"a">>, <<"B">>, <<"a", "B">>, <<"b", "a">>, <<"7">>}

\* The article list and its search box
NextFilter ==
    \/ \E arts \in ListedCorpora : UpdateArticleList(arts)
    \/ \E text \in Queries : FilterArticles(text)

SpecFilter == Init /\ [][NextFilter]_vars

\* The titles typed into the form before saving
SavedTitles == {<<>>, <<"c">>}

\* The scans whose titles are all strings
StringCorpora ==
    {arts \in ListedCorpora : \A k \in 1..Len(arts) : ~arts[k].title.isInt}

\* The article list with its search box, the rows clicked and the editor's
\* save button
NextList ==
    \/ \E arts \in StringCorpora : UpdateArticleList(arts)
    \/ \E text \in {<<>>, <<"B">>} : FilterArticles(text)
    \/ \E current_row \in 0..(Len(article_list) - 1) : LoadArticle(current_row)
    \/ NewArticle
    \/ \E title \in SavedTitles, chosen \in {NoFile, Unlisted} \cup (1..Len(articles)),
          written \in BOOLEAN :
          SaveArticle(title, <<"1">>, chosen, written)

SpecList == Init /\ [][NextList]_vars

\* The texts of the line edits: at most MaxText letters or dashes
LineTexts == UNION {[1..n -> {"a", "-"}] : n \in 0..MaxText}

\* The contents of the editor: with white space around them, with a dash,
\* with one delimiter and with two
Contents ==
    {<<>>, <<"a">>, <<"a", NL>>, <<NL, "a">>, <<"a", "-", "a">>,
     Delimiter \o <<"a">>, Delimiter \o <<"a">> \o Delimiter \o <<"a">>,
     <<"a">> \o Delimiter \o <<"a">>}

Forms ==
    [title : LineTexts, date : {<<"a">>}, cover : {<<>>, <<"a">>},
     categories : {<<>>, <<<<"a">>>>, <<<<"a">>, <<"-", "a">>>>},
     tags : {<<>>, <<<<"-">>>>}, body : Contents]

\* An article is written, saved and opened again
NextDocument ==
    \/ \E form \in Forms : EditForm(form)
    \/ WriteDocument
    \/ ReadDocument

SpecDocument == Init /\ [][NextDocument]_vars

\* The texts typed into the search box of the selector
SelectorQueries == {<<>>, <<"x">>, <<"Y">>, <<"b">>, <<"A">>, <<"z">>}

\* The category selector over the stores the scans build
NextSelector ==
    \/ \E arts \in Corpora : UpdateArticleList(arts)
    \/ ShowCategoryManager(TRUE)
    \/ SelectCategories
    \/ \E text \in SelectorQueries : FilterCategories(text)
    \/ CloseSelector

SpecSelector == Init /\ [][NextSelector]_vars

\* The two workers, over every directory content and every outcome
\* The first export of a session, over file names of every kind, after an
\* empty directory was chosen
NextExport ==
    \/ SelectDirectory("lists", <<>>)
    \/ LoaderList
    \/ LoaderFinish
    \/ /\ exporter.pc = "none"
       /\ \E opens \in BOOLEAN, entries \in Walk(FileNames), closes \in BOOLEAN :
             ExportArticles(opens, entries, closes)
    \/ ExporterOpen
    \/ ExporterWriteFile
    \/ ExporterClose
    \/ ExporterFinish

SpecExport == Init /\ [][NextExport]_vars

\* The directories whose markdown files can all be read
ReadableDirectories ==
    {md_files \in Directories : \A k \in 1..Len(md_files) : md_files[k].ok}

\* Scans started one over the other, with their signals delivered to the
\* window
NextScans ==
    \/ \E listing \in Listings, md_files \in ReadableDirectories :
          SelectDirectory(listing, md_files)
    \/ \E listing \in Listings, md_files \in ReadableDirectories :
          SelectDirectoryOverlapping(listing, md_files)
    \/ LoaderRuns
    \/ EarlierRuns

SpecScans == Init /\ [][NextScans]_vars

NextWorkers ==
    \/ \E listing \in Listings, md_files \in Directories :
          SelectDirectory(listing, md_files)
    \/ LoaderList
    \/ LoaderReadFile
    \/ LoaderFinish
    \/ \E opens \in BOOLEAN, entries \in Entries :
          \E closes \in {c \in BOOLEAN : opens \/ c} :
             ExportArticles(opens, entries, closes)
    \/ ExporterOpen
    \/ ExporterWriteFile
    \/ ExporterClose
    \/ ExporterFinish

SpecWorkers == Init /\ [][NextWorkers]_vars

----------------------------------------------------------------------------
(* What the articles say, counted independently of the store *)

\* The article-category assignments: <<i, j>> is the j-th category of the
\* i-th article
Assignments(arts) ==
    UNION { {<<i, j>> : j \in 1..Len(arts[i].categories)} :
            i \in {k \in 1..Len(arts) : arts[k].catsIsList} }

AssignedPath(arts, a) == arts[a[1]].categories[a[2]]

\* The main name of "Main" and of "Main/Sub"
MainNameOf(cat) == IF HasSlash(cat) THEN SplitMain(cat) ELSE cat

MainAssignments(arts, m) ==
    Cardinality({a \in Assignments(arts) : MainNameOf(AssignedPath(arts, a)) = m})

SubAssignments(arts, m, s) ==
    Cardinality({a \in Assignments(arts) : AssignedPath(arts, a) = Path(m, s)})

\* The articles reference the node of a tree item
Referenced(arts, item) ==
    IF HasParent(item)
    THEN SubAssignments(arts, ParentName(item), ItemName(item)) > 0
    ELSE MainAssignments(arts, ItemName(item)) > 0

\* The node of a tree item is in the store
InStore(cats, item) ==
    IF HasParent(item)
    THEN /\ ParentName(item) \in DOMAIN cats
         /\ ItemName(item) \in DOMAIN Subs(cats, ParentName(item))
    ELSE ItemName(item) \in DOMAIN cats

\* The count the store holds for the node of a tree item
CountOf(cats, item) ==
    IF HasParent(item)
    THEN Subs(cats, ParentName(item))[ItemName(item)]
    ELSE cats[ItemName(item)].count

TagOccurrences(arts, tag) ==
    Cardinality(UNION { {<<i, j>> : j \in {k \in 1..Len(arts[i].tags) : arts[i].tags[k] = tag}} :
                        i \in {k \in 1..Len(arts) : arts[k].tagsIsList} })

----------------------------------------------------------------------------
(* C2 *)

\* C2: category rescan is idempotent. Right after a rescan, a second rescan
\* of the same articles leaves every key and every count as it is; and when
\* two rescans ran in a row, the second changed nothing.
C2_RescanIdempotent ==
    lastOp.op = "scan_articles" =>
        /\ ScanResult(categories, articles) = categories
        /\ (lastOp.pre.op = "scan_articles" /\ hasCatMgr =>
                categories = lastOp.pre.categories)

\* A rescan changed a store whose counts an earlier merge, rename or
\* deletion had left different from the articles'
C2_Witness ==
    /\ lastOp.op = "scan_articles"
    /\ lastOp.pre.op \in {"merge_categories", "edit_category", "delete_category"}
    /\ lastOp.pre.categories # categories
    /\ \E m \in DOMAIN categories : categories[m].count >= 2

----------------------------------------------------------------------------
(* C3 *)

\* C3: after a category rescan, whatever the store held before, each main
\* category's count is the number of assignments whose main name it is (bare
\* or "Main/Sub"), each subcategory's count is the number of assignments
\* that are exactly its "Main/Sub" path, and every assigned name is a key.
C3_CountsDerived ==
    lastOp.op = "scan_articles" =>
        /\ \A m \in DOMAIN categories :
              /\ categories[m].count = MainAssignments(articles, m)
              /\ \A s \in DOMAIN Subs(categories, m) :
                    Subs(categories, m)[s] = SubAssignments(articles, m, s)
        /\ \A a \in Assignments(articles) :
              LET cat == AssignedPath(articles, a)
              IN /\ MainNameOf(cat) \in DOMAIN categories
                 /\ HasSlash(cat) =>
                       SplitSub(cat) \in DOMAIN Subs(categories, SplitMain(cat))

\* A rescan over two articles of a store whose counts were not the articles'
C3_Witness ==
    /\ lastOp.op = "scan_articles"
    /\ Len(articles) = 2
    /\ \E m \in DOMAIN lastOp.pre.categories :
          /\ lastOp.pre.categories[m].count # MainAssignments(articles, m)
          /\ MainAssignments(articles, m) >= 2
    /\ \E m \in DOMAIN categories : \E s \in DOMAIN Subs(categories, m) :
          Subs(categories, m)[s] >= 1 /\ categories[m].count > Subs(categories, m)[s]

----------------------------------------------------------------------------
(* C4 *)

\* What the claim says of a deleted category once the store `after` has been
\* rescanned: back with a count above zero if the articles reference it,
\* absent if they do not
ReappearsIffReferenced(after, arts, item) ==
    IF Referenced(arts, item)
    THEN InStore(after, item) /\ CountOf(after, item) > 0
    ELSE ~InStore(after, item)

TagReappearsIffReferenced(after, arts, tag) ==
    IF TagOccurrences(arts, tag) > 0
    THEN tag \in DOMAIN after /\ after[tag] > 0
    ELSE tag \notin DOMAIN after

\* C4: delete_category and delete_tag remove the node from the store and
\* leave the articles as they are; the next rescan over the same articles
\* brings the node back with a count above zero if some article references
\* it, and leaves it absent if none does.
C4_DeletionNotDurable ==
    /\ lastOp.op = "delete_category" =>
          LET item == lastOp.items[1]
          IN /\ articles = lastOp.pre.articles
             /\ InStore(lastOp.pre.categories, item)
             /\ ~InStore(categories, item)
             /\ ReappearsIffReferenced(ScanResult(categories, articles), articles, item)
    /\ lastOp.op = "scan_articles" /\ lastOp.pre.op = "delete_category" =>
          ReappearsIffReferenced(categories, articles, lastOp.pre.items[1])
    /\ lastOp.op = "delete_tag" =>
          LET tag == lastOp.items[1]
          IN /\ articles = lastOp.pre.articles
             /\ tag \in DOMAIN lastOp.pre.tags
             /\ tag \notin DOMAIN tags
             /\ TagReappearsIffReferenced(TagScanResult(tags, articles), articles, tag)
    /\ lastOp.op = "scan_tags" /\ lastOp.pre.op = "delete_tag" =>
          TagReappearsIffReferenced(tags, articles, lastOp.pre.items[1])

\* A category that the articles reference was deleted, and the rescan that
\* followed has brought it back
C4_Witness ==
    /\ lastOp.op = "scan_articles"
    /\ lastOp.pre.op = "delete_category"
    /\ ~InStore(lastOp.pre.categories, lastOp.pre.items[1])
    /\ Referenced(articles, lastOp.pre.items[1])
    /\ InStore(categories, lastOp.pre.items[1])

----------------------------------------------------------------------------
(* Category merges *)

\* merge_categories got past the confirmation with two selected items
MergeAttempted == lastOp.op \in {"merge_categories", "merge_raised"}

Src == lastOp.items[1]
Tgt == lastOp.items[2]
Old == lastOp.pre.categories

\* A merge of structural case c whose two nodes were both in the store
MergedInCase(c) ==
    /\ MergeAttempted
    /\ MergeCase(Src, Tgt) = c
    /\ InStore(Old, Src)
    /\ InStore(Old, Tgt)

\* The child entries <<main, sub>> of a store
ChildEntries(cats) == {item \in Items(cats) : HasParent(item)}

\* Apart from the named exceptions, every main count and every child entry
\* of the store is what it was
SameMainCountsExcept(names) ==
    \A m \in (DOMAIN categories \cap DOMAIN Old) \ names :
        categories[m].count = Old[m].count

SameChildrenExcept(entries) ==
    \A e \in (ChildEntries(categories) \cap ChildEntries(Old)) \ entries :
        CountOf(categories, e) = CountOf(Old, e)

\* C5: merge case 1, a top-level source into a top-level target: the source
\* key is gone, the target's count is the sum of the two counts, each
\* subcategory of the source is added to the target's (summed when the target
\* has one of that name, created otherwise), and every other top-level node
\* and every other child of the target is unchanged.
C5_MergeTopTop ==
    MergedInCase(1) =>
        LET s == ItemName(Src)
            t == ItemName(Tgt)
        IN /\ lastOp.op = "merge_categories"
           /\ DOMAIN categories = (DOMAIN Old) \ {s}
           /\ categories[t].count = Old[t].count + Old[s].count
           /\ DOMAIN Subs(categories, t) = DOMAIN Subs(Old, t) \cup DOMAIN Subs(Old, s)
           /\ \A c \in DOMAIN Subs(Old, s) :
                 Subs(categories, t)[c] = Get0(Subs(Old, t), c) + Subs(Old, s)[c]
           /\ \A c \in (DOMAIN Subs(Old, t)) \ DOMAIN Subs(Old, s) :
                 Subs(categories, t)[c] = Subs(Old, t)[c]
           /\ \A m \in (DOMAIN Old) \ {s, t} : categories[m] = Old[m]

\* A top-level merge where source and target both had a subcategory of one
\* name, with counts above zero, beside a third top-level node
C5_Witness ==
    /\ MergedInCase(1)
    /\ lastOp.op = "merge_categories"
    /\ \E c \in DOMAIN Subs(Old, ItemName(Src)) \cap DOMAIN Subs(Old, ItemName(Tgt)) :
          Subs(Old, ItemName(Src))[c] > 0 /\ Subs(Old, ItemName(Tgt))[c] > 0
    /\ Old[ItemName(Src)].count > 0
    /\ (DOMAIN Old) \ {ItemName(Src), ItemName(Tgt)} # {}

\* C6: merge case 4, a top-level source into the subcategory P/t: the source
\* is gone from the top level, P.children[t] has grown by the source's count,
\* each subcategory of the source is now a child of P (summed on a name
\* collision, created otherwise), and P's own count is unchanged.
C6_MergeTopSub ==
    MergedInCase(4) =>
        LET s == ItemName(Src)
            P == ParentName(Tgt)
            t == ItemName(Tgt)
        IN /\ lastOp.op = "merge_categories"
           /\ s \notin DOMAIN categories
           /\ P \in DOMAIN categories
           /\ categories[P].count = Old[P].count
           /\ DOMAIN Subs(categories, P) = DOMAIN Subs(Old, P) \cup DOMAIN Subs(Old, s)
           /\ Subs(categories, P)[t] =
                 Subs(Old, P)[t] + Old[s].count + Get0(Subs(Old, s), t)
           /\ \A c \in (DOMAIN Subs(Old, s)) \ {t} :
                 Subs(categories, P)[c] = Get0(Subs(Old, P), c) + Subs(Old, s)[c]

\* C6, where it holds: the same, for a source that is not the parent of the
\* target
C6_MergeTopSubOtherParent ==
    MergedInCase(4) /\ ItemName(Src) # ParentName(Tgt) => C6_MergeTopSub

\* A top-level node was merged into one of its own subcategories
C6_OwnChildReached ==
    MergedInCase(4) /\ ItemName(Src) = ParentName(Tgt)

\* C7: merge case 2, the subcategory P1/s into the subcategory P2/t: the key
\* s is gone from P1's children, P2.children[t] has grown by its count, and
\* nothing else has changed: no main count, no other child, no top-level key.
C7_MergeSubSub ==
    MergedInCase(2) =>
        /\ lastOp.op = "merge_categories"
        /\ DOMAIN categories = DOMAIN Old
        /\ ChildEntries(categories) = ChildEntries(Old) \ {Src}
        /\ CountOf(categories, Tgt) = CountOf(Old, Tgt) + CountOf(Old, Src)
        /\ SameMainCountsExcept({})
        /\ SameChildrenExcept({Tgt})

\* A subcategory with a count above zero was merged into a subcategory of
\* another parent
C7_Witness ==
    /\ MergedInCase(2)
    /\ lastOp.op = "merge_categories"
    /\ ParentName(Src) # ParentName(Tgt)
    /\ CountOf(Old, Src) > 0
    /\ CountOf(Old, Tgt) > 0

\* C8: merge case 3, the subcategory P/s into the top-level T (T may be P):
\* the key s is gone from P's children, T's count has grown by its count, no
\* child entry was created anywhere, and every other count is unchanged.
C8_MergeSubTop ==
    MergedInCase(3) =>
        /\ lastOp.op = "merge_categories"
        /\ DOMAIN categories = DOMAIN Old
        /\ ChildEntries(categories) = ChildEntries(Old) \ {Src}
        /\ categories[ItemName(Tgt)].count = Old[ItemName(Tgt)].count + CountOf(Old, Src)
        /\ SameMainCountsExcept({ItemName(Tgt)})
        /\ SameChildrenExcept({})

\* A subcategory with a count above zero was merged into its own parent
C8_Witness ==
    /\ MergedInCase(3)
    /\ lastOp.op = "merge_categories"
    /\ ParentName(Src) = ItemName(Tgt)
    /\ CountOf(Old, Src) > 0

----------------------------------------------------------------------------
(* C9 *)

CategoryMergeOps ==
    {"merge_rejected", "merge_declined", "merge_raised", "merge_categories"}

TagMergeOps ==
    {"merge_tags_rejected", "merge_tags_declined", "merge_tags_raised", "merge_tags"}

\* C9: a merge with a selection of any size but two is rejected: the store in
\* memory and the store on disk are what they were, for categories and tags.
C9_MergeNeedsTwo ==
    /\ lastOp.op \in CategoryMergeOps /\ lastOp.selected # 2 =>
          /\ lastOp.op = "merge_rejected"
          /\ categories = lastOp.pre.categories
          /\ config = lastOp.pre.config
    /\ lastOp.op \in TagMergeOps /\ lastOp.selected # 2 =>
          /\ lastOp.op = "merge_tags_rejected"
          /\ tags = lastOp.pre.tags
          /\ tagConfig = lastOp.pre.tagConfig

\* Three categories were selected and the merge was rejected
C9_Witness ==
    /\ lastOp.op = "merge_rejected"
    /\ lastOp.selected = 3
    /\ \E m \in DOMAIN categories : categories[m].count > 0

----------------------------------------------------------------------------
(* C10 *)

\* C10: after a category merge the store is on disk and the enumeration last
\* delivered through categories_updated is the flattened store.
C10_MergePublishes ==
    \A c \in 1..4 :
        MergedInCase(c) =>
            /\ config = [exists |-> TRUE, valid |-> TRUE, data |-> categories]
            /\ published = Flatten(categories)

----------------------------------------------------------------------------
(* C1 *)

Terminal(e) == e.sig \in {"finished", "error"}

\* At most one terminal signal, and nothing after it
EndsOnce(log) ==
    /\ Cardinality({k \in 1..Len(log) : Terminal(log[k])}) <= 1
    /\ \A k \in 1..Len(log) : Terminal(log[k]) => k = Len(log)

\* C1: in every invocation of the scan worker and of the export worker,
\* whatever files succeed or fail, finished and error are never both emitted,
\* each is emitted at most once, and no progress follows either of them.
C1_TerminalSignalOnce ==
    /\ EndsOnce(loader.log)
    /\ EndsOnce(exporter.log)

\* A scan that skipped a file and still finished, beside an export that
\* reported progress and then failed on closing the archive
C1_Witness ==
    /\ loader.pc = "done"
    /\ BadFile \in {loader.md_files[k] : k \in 1..Len(loader.md_files)}
    /\ Len(loader.log) >= 2
    /\ loader.log[Len(loader.log)].sig = "finished"
    /\ exporter.pc = "done"
    /\ Len(exporter.log) >= 2
    /\ exporter.log[Len(exporter.log)].sig = "error"

----------------------------------------------------------------------------
(* Category renames *)

\* edit_category got a new name that is not empty and not the old one
RenameAttempted == lastOp.op \in {"edit_category", "edit_raised"}

\* The item renamed was a node of the store, at the top level or below it
RenamedTopLevel ==
    /\ RenameAttempted
    /\ ~HasParent(lastOp.items[1])
    /\ InStore(Old, lastOp.items[1])

RenamedSubcategory ==
    /\ RenameAttempted
    /\ HasParent(lastOp.items[1])
    /\ InStore(Old, lastOp.items[1])

\* C11: renaming the top-level category old to another name new moves the
\* node, count and children, to the key new and removes the key old; a node
\* that was at new before is replaced, nothing of it is added; every other
\* top-level node is unchanged.
C11_RenameTopLevel ==
    RenamedTopLevel =>
        /\ lastOp.op = "edit_category"
        /\ LET old == ItemName(lastOp.items[1])
               new == ItemName(lastOp.items[2])
           IN /\ new # old
              /\ DOMAIN categories = ((DOMAIN Old) \ {old}) \cup {new}
              /\ categories[new] = Old[old]
              /\ \A m \in (DOMAIN Old) \ {old, new} : categories[m] = Old[m]

\* A top-level node with children was renamed onto another node that had a
\* count and children of its own, beside a third node
C11_Witness ==
    /\ RenamedTopLevel
    /\ lastOp.op = "edit_category"
    /\ LET old == ItemName(lastOp.items[1])
           new == ItemName(lastOp.items[2])
       IN /\ new \in DOMAIN Old
          /\ Old[new].count > 0
          /\ DOMAIN Subs(Old, new) # {}
          /\ Old[new] # Old[old]
          /\ (DOMAIN Old) \ {old, new} # {}

\* C12: renaming a subcategory changes the child key under its parent and
\* nothing above it: the child keeps its count under the new key, the old key
\* is gone, the parent keeps its name and its count, every other top-level
\* node and every other child of the parent is unchanged.
C12_RenameSubcategory ==
    RenamedSubcategory =>
        /\ lastOp.op = "edit_category"
        /\ LET P == ParentName(lastOp.items[1])
               old == ItemName(lastOp.items[1])
               new == ItemName(lastOp.items[2])
           IN /\ new # old
              /\ DOMAIN categories = DOMAIN Old
              /\ categories[P].count = Old[P].count
              /\ DOMAIN Subs(categories, P) = ((DOMAIN Subs(Old, P)) \ {old}) \cup {new}
              /\ Subs(categories, P)[new] = Subs(Old, P)[old]
              /\ \A c \in (DOMAIN Subs(Old, P)) \ {old, new} :
                    Subs(categories, P)[c] = Subs(Old, P)[c]
              /\ \A m \in (DOMAIN Old) \ {P} : categories[m] = Old[m]

\* A subcategory with a count above zero was renamed under a parent with a
\* count above zero, beside another top-level node
C12_Witness ==
    /\ RenamedSubcategory
    /\ lastOp.op = "edit_category"
    /\ CountOf(Old, lastOp.items[1]) > 0
    /\ Old[ParentName(lastOp.items[1])].count > 0
    /\ (DOMAIN Old) \ {ParentName(lastOp.items[1])} # {}

----------------------------------------------------------------------------
(* Scan and export: isolation, progress, failures, order *)

\* The values of the progress signals of a log, in order
ProgressValues(log) ==
    LET ps == SelectSeq(log, LAMBDA e : e.sig = "progress")
    IN [j \in 1..Len(ps) |-> ps[j].value]

\* A progress signal for each of n files: the j-th carries floor(100 * j / n)
ProgressPerFile(n) == [j \in 1..n |-> Percent(j, n)]

\* The log holds the error signal and nothing else
OnlyError(log) == Len(log) = 1 /\ log[1].sig = "error"

\* The log holds one finished signal, as its last entry, and no error
EndsFinished(log) ==
    /\ Len(log) >= 1
    /\ log[Len(log)].sig = "finished"
    /\ \A k \in 1..(Len(log) - 1) : log[k].sig = "progress"

\* The scan has returned and rglob gave it a list
ScanListed == loader.pc = "done" /\ loader.listing # "raises"

\* The positions of the files that could be decoded
Decoded == {k \in 1..Len(loader.md_files) : loader.md_files[k].ok}

\* C13: a scan of n markdown files of which k cannot be read or decoded, at
\* any positions, emits one finished signal and no error; the list it carries
\* holds the n - k articles of the files that decoded, each once.
C13_ScanIsolation ==
    ScanListed =>
        /\ EndsFinished(loader.log)
        /\ LET result == loader.log[Len(loader.log)].value
           IN /\ Len(result) = Len(loader.md_files) - Cardinality(
                                  {k \in 1..Len(loader.md_files) : ~loader.md_files[k].ok})
              /\ {result[j].path : j \in 1..Len(result)} = Decoded
              /\ \A j \in 1..Len(result) :
                    result[j].date = loader.md_files[result[j].path].date

\* A scan finished although a file that could not be decoded came before one
\* that could
C13_Witness ==
    /\ ScanListed
    /\ \E k \in 1..(Len(loader.md_files) - 1) :
          ~loader.md_files[k].ok /\ loader.md_files[k + 1].ok
    /\ Len(loader.log[Len(loader.log)].value) >= 1

\* C14: the scan emits a progress signal after each of the n files, decoded
\* or skipped: n signals before finished, the j-th carrying floor(100 * j / n).
C14_ScanProgressPerFile ==
    ScanListed => ProgressValues(loader.log) = ProgressPerFile(Len(loader.md_files))

\* C14, where it holds: a scan in which every file decoded
C14_ScanProgressAllDecoded ==
    ScanListed /\ Decoded = 1..Len(loader.md_files) => C14_ScanProgressPerFile

\* The export has returned after it opened and closed the archive
Exported == exporter.pc = "done" /\ exporter.opens /\ exporter.closes

\* C15: the export emits a progress signal after each attempt to add one of
\* the n selected files, successful or not: n signals before finished, the
\* last one 100.
C15_ExportProgressPerFile ==
    Exported => ProgressValues(exporter.log) = ProgressPerFile(Len(exporter.files_to_zip))

\* C15, where it holds: an export in which every file was added
C15_ExportProgressAllAdded ==
    Exported /\ Len(exporter.added) = Len(exporter.files_to_zip) =>
        C15_ExportProgressPerFile

\* C16: a file that cannot be added does not abort the export: every other
\* selected file is added, and the export ends with one finished signal and
\* no error.
C16_ExportIsolation ==
    /\ exporter.pc = "loop" => exporter.log = [j \in 1..Len(exporter.added) |->
                                   Progress(Percent(exporter.added[j],
                                                    Len(exporter.files_to_zip)))]
    /\ Exported =>
          /\ EndsFinished(exporter.log)
          /\ exporter.i = Len(exporter.files_to_zip)
          /\ {exporter.added[j] : j \in 1..Len(exporter.added)} =
                {k \in 1..Len(exporter.files_to_zip) : exporter.files_to_zip[k].addable}
          /\ \A j \in 1..(Len(exporter.added) - 1) :
                exporter.added[j] < exporter.added[j + 1]

\* An export finished although a file that could not be added came before
\* one that could
C16_Witness ==
    /\ Exported
    /\ \E k \in 1..(Len(exporter.files_to_zip) - 1) :
          ~exporter.files_to_zip[k].addable /\ exporter.files_to_zip[k + 1].addable
    /\ exporter.added # <<>>

\* C17: when the archive cannot be opened, the export emits one error signal
\* and neither finished nor progress.
C17_ArchiveNotOpened ==
    /\ exporter.pc \in {"loop", "done"} /\ ~exporter.opens => OnlyError(exporter.log)
    /\ ~exporter.opens => exporter.pc \in {"start", "done"} /\ exporter.added = <<>>

\* An export of a directory with a file to add ended on an archive that could
\* not be opened
C17_Witness ==
    /\ exporter.pc = "done"
    /\ ~exporter.opens
    /\ \E k \in 1..Len(exporter.entries) :
          ToZip(exporter.entries[k].file) /\ exporter.entries[k].addable

\* C18: when the directory cannot be enumerated, as when the path does not
\* exist, the scan emits the error signal and no finished signal.
C18_EnumerationFails ==
    loader.pc = "done" /\ loader.listing \in {"missing", "raises"} =>
        OnlyError(loader.log)

\* C18, where it holds: rglob raised
C18_EnumerationRaises ==
    loader.pc = "done" /\ loader.listing = "raises" => OnlyError(loader.log)

\* The scan of a path that does not exist has returned
C18_MissingReached ==
    loader.pc = "done" /\ loader.listing = "missing"

\* C19: the list the scan's finished signal carries is in descending order of
\* str(date), compared character by character: no article is followed by one
\* with a greater key.
C19_SortedByDateString ==
    \A k \in 1..Len(loader.log) :
        loader.log[k].sig = "finished" =>
            LET result == loader.log[k].value
            IN \A j \in 1..(Len(result) - 1) :
                  ~StrLess(Str(result[j].date), Str(result[j + 1].date))

\* The scan read the date 10 before the date "9" and delivered "9" first
C19_Witness ==
    /\ ScanListed
    /\ LET result == loader.log[Len(loader.log)].value
       IN /\ Len(result) = 2
          /\ result[1].path > result[2].path
          /\ result[1].date = StrValue(<<"9">>)
          /\ result[2].date = IntValue(10)

----------------------------------------------------------------------------
(* C20 *)

\* The 0-based positions of the articles whose title contains the query,
\* letter case aside
Matching(arts, text) ==
    {k \in 0..(Len(arts) - 1) :
        Contains(Lower(text), Lower(Str(arts[k + 1].title)))}

\* The rows displayed and the index array are what the flat filter asks for
FilteredBy(text) ==
    /\ filtered_indices.set
    /\ Len(article_list) = Len(filtered_indices.indices)
    /\ {filtered_indices.indices[r] : r \in 1..Len(article_list)} = Matching(articles, text)
    /\ \A r \in 1..(Len(article_list) - 1) :
          filtered_indices.indices[r] < filtered_indices.indices[r + 1]
    /\ \A r \in 1..Len(article_list) :
          /\ ArticleIndex(r - 1) = filtered_indices.indices[r]
          /\ article_list[r] = DisplayText(articles[ArticleIndex(r - 1) + 1])

FilterCalled == lastOp.op \in {"filter_articles", "filter_raised"}

\* C20: after filter_articles(q) the list shows the articles whose title
\* contains q, letter case aside, in the order of the corpus, none left out
\* and none added; filtered_indices has one entry for each row, strictly
\* increasing, and row i is the article at position filtered_indices[i].
C20_FlatFilter ==
    FilterCalled => lastOp.op = "filter_articles" /\ FilteredBy(lastOp.items[1])

\* C20, where it holds: every title of the corpus is a string
C20_FlatFilterStringTitles ==
    FilterCalled /\ (\A k \in 1..Len(articles) : ~articles[k].title.isInt) =>
        C20_FlatFilter

\* A query in another letter case kept the second of two articles and left
\* out the first
C20_StringTitlesWitness ==
    /\ lastOp.op = "filter_articles"
    /\ Len(articles) = 2
    /\ filtered_indices.indices = <<1>>
    /\ lastOp.items[1] # Lower(lastOp.items[1])

----------------------------------------------------------------------------
(* C21 *)

\* The item is shown in the selector
Visible(item) == item \notin selector.hidden

NameMatches(item, text) == Contains(Lower(text), Lower(ItemName(item)))

ChildrenOf(item) ==
    {child \in Items(selector.categories) :
        HasParent(child) /\ ~HasParent(item) /\ ParentName(child) = ItemName(item)}

\* C21: after filter_categories(q) a node is visible exactly when its own
\* name contains q, letter case aside, or one of its children is visible; so
\* a matching subcategory is visible together with its parent, and a main
\* category is hidden exactly when neither it nor a subcategory matches.
C21_TreeFilter ==
    lastOp.op = "filter_categories" =>
        \A item \in Items(selector.categories) :
            Visible(item) <=>
                \/ NameMatches(item, lastOp.items[1])
                \/ \E child \in ChildrenOf(item) : Visible(child)

\* A subcategory matched under a parent whose name does not match, beside a
\* hidden sibling and a hidden main category
C21_Witness ==
    /\ lastOp.op = "filter_categories"
    /\ \E item \in Items(selector.categories) :
          /\ ~HasParent(item)
          /\ ~NameMatches(item, lastOp.items[1])
          /\ Visible(item)
          /\ \E child \in ChildrenOf(item) : ~Visible(child)
    /\ \E item \in Items(selector.categories) : ~HasParent(item) /\ ~Visible(item)
    /\ lastOp.items[1] # Lower(lastOp.items[1])

----------------------------------------------------------------------------
(* C22 *)

\* What load_article read is what the form held when it was saved
ReadBack ==
    /\ document.loaded.ok
    /\ document.loaded.title = document.form.title
    /\ document.loaded.date = document.form.date
    /\ document.loaded.cover = document.form.cover
    /\ document.loaded.categories = document.form.categories
    /\ document.loaded.tags = document.form.tags
    /\ document.loaded.body = document.form.body

\* C22: for every metadata map and every body, decoding the text that the
\* encoding produced gives back the same title, date, cover, categories and
\* tags and the same body.
C22_RoundTrip ==
    document.stage = "loaded" => ReadBack

HoldsDelimiter(text) == FindFrom(text, Delimiter, 1) # 0

\* The form holds no delimiter in a field, and a body without white space
\* around it that does not start with the delimiter
PlainForm(form) ==
    /\ ~HoldsDelimiter(form.title)
    /\ ~HoldsDelimiter(form.date)
    /\ ~HoldsDelimiter(form.cover)
    /\ \A k \in 1..Len(form.categories) : ~HoldsDelimiter(form.categories[k])
    /\ \A k \in 1..Len(form.tags) : ~HoldsDelimiter(form.tags[k])
    /\ Strip(form.body) = form.body
    /\ ~StartsWith(form.body, Delimiter)

\* C22, where it holds: the round trip of a form without a delimiter in its
\* fields and with a stripped body
C22_RoundTripPlainForm ==
    document.stage = "loaded" /\ PlainForm(document.form) => ReadBack

\* A form with categories, a tag that needs quotes, an empty cover and a body
\* with a delimiter inside was read back
C22_PlainFormWitness ==
    /\ document.stage = "loaded"
    /\ PlainForm(document.form)
    /\ Len(document.form.categories) = 2
    /\ document.form.tags # <<>>
    /\ document.form.cover = <<>>
    /\ HoldsDelimiter(document.form.body)
    /\ document.form.title # <<>>

\* The archive written: the file stored and the name it is stored under, for
\* every zipf.write that succeeded
Archive ==
    {[full_path |-> exporter.files_to_zip[k].full_path,
      rel_path |-> exporter.files_to_zip[k].rel_path] :
        k \in {exporter.added[j] : j \in 1..Len(exporter.added)}}

\* The files of the claim: the name ends in ".md" as written, or ends in an
\* image extension once lower-cased
Selected ==
    {k \in 1..Len(exporter.entries) :
        \/ EndsWith(exporter.entries[k].file, <<".", "m", "d">>)
        \/ \E ext \in {<<".", "p", "n", "g">>, <<".", "j", "p", "g">>,
                        <<".", "j", "p", "e", "g">>, <<".", "g", "i", "f">>,
                        <<".", "s", "v", "g">>} :
              EndsWith(Lower(exporter.entries[k].file), ext)}

\* C23: when an export finishes and every selected file could be added, the
\* archive holds exactly the files below the source directory whose name ends
\* in ".md" (case-sensitive) or, lower-cased, in .png .jpg .jpeg .gif .svg;
\* each is stored under its path relative to the source directory
C23_ExportSelection ==
    (/\ exporter.pc = "done"
     /\ EndsFinished(exporter.log)
     /\ \A k \in Selected : exporter.entries[k].addable)
        => Archive =
              {[full_path |-> SourceDir \o exporter.entries[k].dir
                                  \o <<exporter.entries[k].file>>,
                rel_path |-> exporter.entries[k].dir \o <<exporter.entries[k].file>>] :
                  k \in Selected}

\* An export finished that found an upper-case .MD file, which is left out,
\* an upper-case image file in a subdirectory, which is stored, and nothing
\* that could not be added
C23_Witness ==
    /\ exporter.pc = "done"
    /\ EndsFinished(exporter.log)
    /\ \A k \in Selected : exporter.entries[k].addable
    /\ \E k \in 1..Len(exporter.entries) :
          exporter.entries[k].file = <<"a", ".", "M", "D">>
    /\ \E pair \in Archive :
          pair.rel_path = <<"sub", <<"i", ".", "P", "N", "G">>>>

\* The places where a tag stands in the tag list of an article
Occurrences(tag) ==
    UNION {{<<i, j>> : j \in {k \in 1..Len(articles[i].tags) :
                                  articles[i].tagsIsList /\ articles[i].tags[k] = tag}} :
               i \in 1..Len(articles)}

\* C24: after a tag rescan, whatever the table held before, the table holds
\* exactly the tags that occur in the tag list of some article, each with the
\* number of its occurrences
C24_TagRescan ==
    lastOp.op = "scan_tags"
        => /\ DOMAIN tags = {tag \in TagNames : Occurrences(tag) # {}}
           /\ \A tag \in DOMAIN tags : tags[tag] = Cardinality(Occurrences(tag))

\* A rescan that started from a table with other keys and other counts, and
\* counted one tag in two articles
C24_Witness ==
    /\ lastOp.op = "scan_tags"
    /\ DOMAIN lastOp.pre.tags # DOMAIN tags
    /\ \E tag \in DOMAIN tags \cap DOMAIN lastOp.pre.tags :
          lastOp.pre.tags[tag] # tags[tag] /\ tags[tag] = 2

RECURSIVE SumOver(_, _)
\* The sum of the counts of a table over a set of its keys
SumOver(t, keys) ==
    IF keys = {} THEN 0
    ELSE LET key == CHOOSE k \in keys : TRUE
         IN t[key] + SumOver(t, keys \ {key})

TagTotal(t) == SumOver(t, DOMAIN t)

\* C25: a confirmed merge of two tags keeps the first name with the sum of the
\* two counts, removes the second name, leaves every other tag as it was, and
\* so conserves the total of the counts
C25_TagMerge ==
    lastOp.op = "merge_tags"
        => LET kept == lastOp.items[1]
               dropped == lastOp.items[2]
               old == lastOp.pre.tags
           IN /\ DOMAIN tags = DOMAIN old \ {dropped}
              /\ tags[kept] = old[kept] + old[dropped]
              /\ \A tag \in DOMAIN tags \ {kept} : tags[tag] = old[tag]
              /\ TagTotal(tags) = TagTotal(old)

\* A merge of two tags with different counts next to a third tag
C25_Witness ==
    /\ lastOp.op = "merge_tags"
    /\ Cardinality(DOMAIN lastOp.pre.tags) = 3
    /\ lastOp.pre.tags[lastOp.items[1]] # lastOp.pre.tags[lastOp.items[2]]
    /\ lastOp.pre.tags[lastOp.items[2]] > 0

\* The operations that end with saveConfig
CategorySaves == {"scan_articles", "edit_category", "merge_categories", "delete_category"}
TagSaves == {"scan_tags", "edit_tag", "merge_tags", "delete_tag"}

\* The saveConfig of the last operation succeeded, or failed with a message
SaveSucceeded == saveFailures = lastOp.pre.saveFailures
SaveFailed == saveFailures = lastOp.pre.saveFailures + 1

\* C26: after a rescan, rename, merge or delete on either store that ends
\* with a successful save, the file holds the store in memory, whatever
\* operations, failed saves included, came before
C26_PersistedEqualsMemory ==
    /\ (lastOp.op \in CategorySaves /\ SaveSucceeded)
          => config = [exists |-> TRUE, valid |-> TRUE, data |-> categories]
    /\ (lastOp.op \in TagSaves /\ SaveSucceeded)
          => tagConfig = [exists |-> TRUE, valid |-> TRUE, data |-> tags]

\* A category merge saved the store after an earlier save had failed and
\* left the file behind the store in memory
C26_Witness ==
    /\ lastOp.op = "merge_categories"
    /\ SaveSucceeded
    /\ saveFailures > 0
    /\ lastOp.pre.op \in CategorySaves
    /\ lastOp.pre.config # [exists |-> TRUE, valid |-> TRUE,
                            data |-> lastOp.pre.categories]
    /\ config.data = categories

\* C27: when the save of a rescan, rename, merge or delete fails, the file
\* still holds what the last successful save wrote, which is what it held
\* before the operation
C27_SaveFailure ==
    /\ (lastOp.op \in CategorySaves /\ SaveFailed) => config = lastOp.pre.config
    /\ (lastOp.op \in TagSaves /\ SaveFailed) => tagConfig = lastOp.pre.tagConfig

\* The part of C27 that holds: a failed save is counted as reported, the file
\* is the old one or a damaged one, and the store in memory holds the result
\* of the operation as the claims on the operations describe it
C27_MutationKept ==
    /\ (lastOp.op \in CategorySaves /\ SaveFailed)
          => config \in {lastOp.pre.config, Damaged}
    /\ (lastOp.op \in TagSaves /\ SaveFailed)
          => tagConfig \in {lastOp.pre.tagConfig, Damaged}
    /\ SaveFailed => C24_TagRescan /\ C25_TagMerge
    /\ (lastOp.op = "delete_tag" /\ SaveFailed)
          => tags = [tag \in DOMAIN lastOp.pre.tags \ {lastOp.items[1]} |->
                        lastOp.pre.tags[tag]]
    /\ (lastOp.op = "edit_tag" /\ SaveFailed)
          => /\ DOMAIN tags = (DOMAIN lastOp.pre.tags \ {lastOp.items[1]})
                                  \cup {lastOp.items[2]}
             /\ tags[lastOp.items[2]] = lastOp.pre.tags[lastOp.items[1]]
    /\ (lastOp.op = "delete_category" /\ SaveFailed)
          => Items(categories) =
                {item \in Items(lastOp.pre.categories) :
                    /\ item # lastOp.items[1]
                    /\ ~(Len(lastOp.items[1]) = 1 /\ item[1] = lastOp.items[1][1])}

\* A tag merge whose save failed: the table in memory is merged
C27_MutationKeptWitness ==
    /\ lastOp.op = "merge_tags"
    /\ SaveFailed
    /\ tags # lastOp.pre.tags
    /\ tagConfig = Damaged

\* The store a category rescan starts from: the dict of the dialog, or the
\* dict a new dialog loads from the file
Prior ==
    IF lastOp.pre.hasCatMgr THEN lastOp.pre.categories ELSE LoadConfig(lastOp.pre.config)

\* The category strings in the lists of the articles
AssignedCategories ==
    UNION {{articles[i].categories[j] : j \in 1..Len(articles[i].categories)} :
               i \in {k \in 1..Len(articles) : articles[k].catsIsList}}

\* C28: a category rescan keeps every main category and every subcategory
\* that the store held before it, and gives the count 0 to each one that no
\* article refers to, by its own name or, for a main category, by one of its
\* subcategories
C28_RescanKeepsKeys ==
    lastOp.op = "scan_articles"
        => \A m \in DOMAIN Prior :
              /\ m \in DOMAIN categories
              /\ (\A cat \in AssignedCategories : cat # m /\ ~(HasSlash(cat) /\ SplitMain(cat) = m))
                    => categories[m].count = 0
              /\ \A sub \in DOMAIN Subs(Prior, m) :
                    /\ sub \in DOMAIN Subs(categories, m)
                    /\ Path(m, sub) \notin AssignedCategories
                          => Subs(categories, m)[sub] = 0

\* A rescan over another article list: a main category and a subcategory that
\* were counted before are kept with the count 0
C28_Witness ==
    /\ lastOp.op = "scan_articles"
    /\ \E m \in DOMAIN Prior :
          /\ Prior[m].count > 0
          /\ categories[m].count = 0
          /\ \E sub \in DOMAIN Subs(Prior, m) :
                Subs(Prior, m)[sub] > 0 /\ Subs(categories, m)[sub] = 0
    /\ AssignedCategories # {}

\* The log holds one finished signal and nothing else
OnlyFinished(log) == Len(log) = 1 /\ log[1].sig = "finished"

\* C29: a scan whose listing is empty, and an export that selects no file and
\* whose archive opens and closes, emit no progress and no error and end with
\* one finished signal, which for the scan carries the empty list
C29_ZeroFiles ==
    /\ (ScanListed /\ loader.md_files = <<>>)
          => OnlyFinished(loader.log) /\ loader.log[1].value = <<>>
    /\ (Exported /\ exporter.files_to_zip = <<>>) => OnlyFinished(exporter.log)

\* A scan of a directory without markdown files has returned, and so has an
\* export of a directory that holds only files of another kind
C29_Witness ==
    /\ ScanListed
    /\ loader.listing = "lists"
    /\ loader.md_files = <<>>
    /\ Exported
    /\ exporter.entries # <<>>
    /\ exporter.files_to_zip = <<>>

\* The values are whole percentages and never fall
InRangeAndRising(values) ==
    /\ \A k \in 1..Len(values) : values[k] \in 0..100
    /\ \A k \in 1..(Len(values) - 1) : values[k] <= values[k + 1]

\* C30: at every moment of a scan or an export, the progress values emitted
\* so far are integers from 0 to 100 and none is smaller than the one before
C30_ProgressRange ==
    /\ InRangeAndRising(ProgressValues(loader.log))
    /\ InRangeAndRising(ProgressValues(exporter.log))

\* Both workers have emitted two progress values, the second larger than
\* the first
C30_Witness ==
    /\ Len(ProgressValues(loader.log)) >= 2
    /\ Len(ProgressValues(exporter.log)) >= 2
    /\ ProgressValues(loader.log)[1] < ProgressValues(loader.log)[2]
    /\ ProgressValues(exporter.log)[1] < ProgressValues(exporter.log)[2]

\* The export has emitted finished
ExportCompleted ==
    \E k \in 1..Len(exporter.log) : exporter.log[k].sig = "finished"

\* C31: whenever the export has emitted finished, every selected file was
\* tried and the archive was closed before; an archive that fails to close
\* ends the export with error and without finished
C31_FinishedAfterClose ==
    /\ ExportCompleted
          => /\ exporter.i = Len(exporter.files_to_zip)
             /\ exporter.closed
             /\ exporter.log[Len(exporter.log)].sig = "finished"
    /\ (exporter.pc = "done" /\ exporter.opens /\ ~exporter.closes)
          => /\ ~ExportCompleted
             /\ exporter.log[Len(exporter.log)].sig = "error"
    /\ (exporter.pc = "closed")
          => ~ExportCompleted /\ exporter.i = Len(exporter.files_to_zip)

\* An export that tried two files, one of which could not be added, closed
\* the archive and emitted finished
C31_Witness ==
    /\ ExportCompleted
    /\ exporter.closed
    /\ Len(exporter.files_to_zip) >= 2
    /\ Len(exporter.added) < Len(exporter.files_to_zip)
    /\ exporter.added # <<>>

\* An export whose archive could not be closed has ended with error
C31_CloseFailsReached ==
    /\ exporter.pc = "done"
    /\ exporter.opens /\ ~exporter.closes
    /\ exporter.added # <<>>

RECURSIVE CategoryTotalOver(_, _)
\* The counts of some main categories and of their subcategories, summed
CategoryTotalOver(cats, mains) ==
    IF mains = {} THEN 0
    ELSE LET m == CHOOSE k \in mains : TRUE
         IN cats[m].count + SumOver(Subs(cats, m), DOMAIN Subs(cats, m))
              + CategoryTotalOver(cats, mains \ {m})

CategoryTotal(cats) == CategoryTotalOver(cats, DOMAIN cats)

\* C32: a category merge that completes leaves the sum of all main-category
\* counts and all subcategory counts as it was, in each of the four cases
C32_MergeConservesTotal ==
    lastOp.op = "merge_categories"
        => CategoryTotal(categories) = CategoryTotal(lastOp.pre.categories)

\* A completed merge of two main categories that both had a counted
\* subcategory of the same name
C32_Witness ==
    /\ lastOp.op = "merge_categories"
    /\ MergeCase(Src, Tgt) = 1
    /\ \E sub \in DOMAIN Subs(Old, Src[1]) \cap DOMAIN Subs(Old, Tgt[1]) :
          Subs(Old, Src[1])[sub] > 0 /\ Subs(Old, Tgt[1])[sub] > 0
    /\ CategoryTotal(categories) > 0

\* A completed merge of a main category with a counted subcategory into a
\* subcategory of another main category
C32_TopSubReached ==
    /\ lastOp.op = "merge_categories"
    /\ MergeCase(Src, Tgt) = 4
    /\ \E sub \in DOMAIN Subs(Old, Src[1]) : Subs(Old, Src[1])[sub] > 0

\* The merge was applied and the store was written to the file
MergeApplied ==
    /\ lastOp.op = "merge_categories"
    /\ ~InStore(categories, Src)
    /\ CategoryTotal(categories) = CategoryTotal(Old)
    /\ config = [exists |-> TRUE, valid |-> TRUE, data |-> categories]

\* C33: a confirmed merge of two selected nodes, a main category merged into
\* one of its own subcategories included, either applies its case in full and
\* saves it or leaves the store in memory as it was
C33_MergeAllOrNothing ==
    MergeAttempted => MergeApplied \/ categories = Old

\* C33, where it holds: both nodes are in the store and the target is not a
\* subcategory of the source
C33_MergeOtherPairs ==
    (/\ MergeAttempted
     /\ InStore(Old, Src) /\ InStore(Old, Tgt)
     /\ ~(MergeCase(Src, Tgt) = 4 /\ ItemName(Src) = ParentName(Tgt)))
        => MergeApplied

\* A main category with a count was merged into a subcategory of another
\* main category
C33_OtherPairsWitness ==
    /\ MergeApplied
    /\ MergeCase(Src, Tgt) = 4
    /\ Old[ItemName(Src)].count > 0

\* Row r of the list resolves to an article, and shows its title and date
RowShowsArticle(r) ==
    /\ ArticleIndex(r - 1) \in 0..(Len(articles) - 1)
    /\ article_list[r] = DisplayText(articles[ArticleIndex(r - 1) + 1])

\* C34: after any sequence of scan completions, filters and saves, every row
\* displayed resolves through load_article to an article, and shows the title
\* and the date of that article
C34_RowsConsistent ==
    \A r \in 1..Len(article_list) : RowShowsArticle(r)

\* C34, where it holds: while filtered_indices is not set, and right after
\* filter_articles has rebuilt the rows
C34_RowsConsistentUnfiltered ==
    (~filtered_indices.set \/ lastOp.op \in {"filter_articles", "filter_raised"})
        => C34_RowsConsistent

\* An article was saved under a new title without a filter, next to another
\* row, and the rows still show their articles
C34_UnfilteredWitness ==
    /\ lastOp.op = "save_article"
    /\ ~filtered_indices.set
    /\ Len(article_list) >= 2
    /\ articles # lastOp.pre.articles
    /\ lastOp.pre.articles # <<>>

\* The loader has returned with the finished signal
Completed(l) == l.pc = "done" /\ l.log[Len(l.log)].sig = "finished"

\* What the window holds after update_article_list ran for the finished
\* signal of a loader
ResultOf(l) == ListedArticles(l.log[Len(l.log)].value)

\* C35: when a second scan was started while the first was running and both
\* have finished, the window holds the articles of the scan started last,
\* whichever of the two finished first
C35_LatestScanWins ==
    (Completed(loader) /\ Completed(earlier)) => articles = ResultOf(loader)

\* C35, where it holds: the scan started last has finished and no replaced
\* scan has finished
C35_SingleScanWins ==
    (Completed(loader) /\ ~Completed(earlier)) => articles = ResultOf(loader)

\* The scan started last has delivered two articles while the scan it
\* replaced is still running
C35_SingleScanWitness ==
    /\ Completed(loader)
    /\ InFlight(earlier)
    /\ Len(articles) = 2
    /\ articles[1].date # articles[2].date
====
